---------------------------- MODULE Spec2Model ----------------------------
(***************************************************************************)
(* Araripe deforestation monitoring: anomaly scoring, confidence fusion,   *)
(* alert vectorization and the alert ledger written by the detection run.  *)
(*                                                                         *)
(* Numbers.  Index values, means, standard deviations and deltas are       *)
(* fixed-point integers in thousandths (0.5 is 500).  A z-score is kept as *)
(* the exact fraction num/den, so that "z < threshold" is decided without  *)
(* rounding.  Sigma thresholds are in thousandths of a sigma.  A missing   *)
(* value (NaN) is the record NaN; every comparison with it is FALSE, as in *)
(* IEEE arithmetic.                                                        *)
(***************************************************************************)
EXTENDS Integers, Sequences, FiniteSets, TLC

VARIABLES
    score,            \* one call of compute_zscore / compute_delta: arguments and results
    current_indices,  \* detect_deforestation argument: index name -> grid
    baseline_means,   \* detect_deforestation argument: index name -> grid
    baseline_stds,    \* detect_deforestation argument: index name -> grid
    spi_3month,       \* detect_deforestation argument: [given, v]
    detection,        \* what detect_deforestation returned (or raised)
    vec,              \* one call of vectorize_alerts: arguments and result
    alert_files,      \* ALERTS_DIR: date -> the alerts_<date>.geojson file
    alert_stats,      \* the alert_stats table: its rows, oldest first
    last_run,         \* per date, what the latest vectorize_alerts of the run gave
    regional_stats,   \* the regional_stats table: its rows, oldest first
    store_log,        \* per table and key, the values of the latest call that wrote it
    batch,            \* the scene loop of a command: its scenes and where it stands
    arrays_by_idx_month, \* build_baseline: month -> scenes kept for the composite
    trend,            \* one call of mann_kendall_test: argument and result
    monitor,          \* one call of detect_breaks_harmonic: arguments and result
    spi_call,         \* one call of compute_spi or compute_spi_3month
    slope_call,       \* one call of sens_slope: arguments and result
    index_call,       \* one call of compute_index: arguments and result
    search            \* one call of search_sentinel2_with_fallback

detectVars == <<current_indices, baseline_means, baseline_stds, spi_3month, detection>>
runVars == <<alert_files, alert_stats, last_run>>
storeVars == <<regional_stats, store_log>>
batchVars == <<batch, arrays_by_idx_month>>
analyticsVars == <<trend, monitor, spi_call>>
callVars == <<slope_call, index_call, search>>
vars == <<score, detectVars, vec, runVars, storeVars, batchVars, analyticsVars, callVars>>

---------------------------------------------------------------------------
(* Bounds of the model *)

\* number of pixels of the grids handed to the elementwise scoring functions
NPix == 1

Pixels == 1..NPix

\* the confidence rasters handed to vectorize_alerts have two rows and GridW
\* columns
GridW == 3

Rows == {0, 1}
Cols == 0..(GridW - 1)
Cells == Rows \X Cols

---------------------------------------------------------------------------
(* config/settings.py, in thousandths *)

Z_THRESHOLD_HIGH == -3000
Z_THRESHOLD_MEDIUM == -2500
Z_THRESHOLD_LOW == -2000

DELTA_THRESHOLD_HIGH == -200
DELTA_THRESHOLD_MEDIUM == -150
\* read only by delta_flags, which detect_deforestation fills and never uses
DELTA_THRESHOLD_LOW == -100

SPI_DROUGHT_THRESHOLD == -1000
DROUGHT_Z_ADJUSTMENT == 500

\* default of compute_zscore's min_std parameter (0.01)
DEFAULT_MIN_STD == 10

---------------------------------------------------------------------------
(* Values and grids *)

NaN == [nan |-> TRUE, v |-> 0]
Num(x) == [nan |-> FALSE, v |-> x]

\* the z-score num/den; den > 0 whenever min_std > 0
ZNaN == [nan |-> TRUE, num |-> 0, den |-> 1]
Frac(n, d) == [nan |-> FALSE, num |-> n, den |-> d]

\* a < b on floats: FALSE when either side is NaN
Lt(a, b) == ~a.nan /\ ~b.nan /\ a.v < b.v
Gt(a, b) == ~a.nan /\ ~b.nan /\ a.v > b.v

SubZeroFill(a, b) ==
    Num((IF a.nan THEN 0 ELSE a.v) - (IF b.nan THEN 0 ELSE b.v))

\* a - b on floats
Sub(a, b) == IF a.nan \/ b.nan THEN NaN ELSE Num(a.v - b.v)

\* z < t for a z-score fraction and a threshold t in thousandths of a sigma
ZLt(z, t) == ~z.nan /\ z.num * 1000 < t * z.den

---------------------------------------------------------------------------
(* src/detection/baseline.py *)

\* std.where(std > min_std, other=min_std), one pixel: a NaN std fails the
\* comparison and is replaced like a small one
SafeStdNoClamp(std, min_std) == std
SafeStd(std, min_std) == IF Gt(std, Num(min_std)) THEN std ELSE Num(min_std)

\* (current - mean) / safe_std, one pixel
ZScorePixel(current, mean, std, min_std) ==
    LET safe_std == SafeStd(std, min_std)
        diff == Sub(current, mean)
    IN  IF diff.nan \/ safe_std.nan THEN ZNaN ELSE Frac(diff.v, safe_std.v)

compute_zscore(current, mean, std, min_std) ==
    [p \in Pixels |-> ZScorePixel(current[p], mean[p], std[p], min_std)]

compute_delta(current, mean) ==
    [p \in Pixels |-> Sub(current[p], mean[p])]


---------------------------------------------------------------------------
(* src/detection/change_detect.py: detect_deforestation *)

\* the order of current_indices.data_vars (run_detection.py --indices default)
IndexOrder == <<"ndmi", "nbr", "evi2">>
Indices == {IndexOrder[i] : i \in 1..Len(IndexOrder)}

NoSpi == [given |-> FALSE, v |-> 0]
Spi(x) == [given |-> TRUE, v |-> x]

ZAdjAtThreshold(spi) ==
    IF spi.given /\ spi.v <= SPI_DROUGHT_THRESHOLD THEN DROUGHT_Z_ADJUSTMENT ELSE 0

\* z_adj: the drought adjustment of the sigma thresholds
ZAdj(spi) ==
    IF spi.given /\ spi.v < SPI_DROUGHT_THRESHOLD THEN DROUGHT_Z_ADJUSTMENT ELSE 0

ZHigh(spi) == Z_THRESHOLD_HIGH - ZAdj(spi)
ZMed(spi) == Z_THRESHOLD_MEDIUM - ZAdj(spi)
ZLowNarrowed(spi) == Z_THRESHOLD_LOW + ZAdj(spi)
ZLow(spi) == Z_THRESHOLD_LOW - ZAdj(spi)

\* available_indices: the data_vars of the current observation that have a
\* baseline mean, in data_vars order
AvailableIndices(cur, means) ==
    SelectSeq(IndexOrder, LAMBDA n : n \in DOMAIN cur /\ n \in DOMAIN means)

\* moisture_indices
MoistureIndices(avail) == SelectSeq(avail, LAMBDA n : n \in {"ndmi", "nbr"})

SeqRange(s) == {s[i] : i \in 1..Len(s)}

HighStepOneSuffices(conf, z, d, moisture, z_high) ==
    IF Len(moisture) >= 1
    THEN [p \in Pixels |->
            IF \A n \in SeqRange(moisture) :
                  ZLt(z[n][p], z_high) /\ Lt(d[n][p], Num(DELTA_THRESHOLD_HIGH))
            THEN 3 ELSE conf[p]]
    ELSE conf

\* the high step: 3 where every moisture index has z < z_high and
\* delta < DELTA_THRESHOLD_HIGH, applied only with two moisture indices
HighStep(conf, z, d, moisture, z_high) ==
    IF Len(moisture) >= 2
    THEN [p \in Pixels |->
            LET high_z == \A n \in SeqRange(moisture) : ZLt(z[n][p], z_high)
                high_d == \A n \in SeqRange(moisture) :
                              Lt(d[n][p], Num(DELTA_THRESHOLD_HIGH))
            IN  IF high_z /\ high_d THEN 3 ELSE conf[p]]
    ELSE conf

MediumPassBoth(conf, z, d, n, z_med) ==
    [p \in Pixels |->
        IF conf[p] < 2 /\ ZLt(z[n][p], z_med)
                       /\ Lt(d[n][p], Num(DELTA_THRESHOLD_MEDIUM))
        THEN 2 ELSE conf[p]]

\* one pass of the medium loop, for the moisture index n
MediumPass(conf, z, d, n, z_med) ==
    [p \in Pixels |->
        LET z_med_flag == ZLt(z[n][p], z_med)
            d_med_flag == Lt(d[n][p], Num(DELTA_THRESHOLD_MEDIUM))
            med_flag == z_med_flag \/ d_med_flag
        IN  IF conf[p] < 2 /\ med_flag THEN 2 ELSE conf[p]]

RECURSIVE MediumStep(_, _, _, _, _)
MediumStep(conf, z, d, moisture, z_med) ==
    IF moisture = <<>> THEN conf
    ELSE MediumStep(MediumPass(conf, z, d, Head(moisture), z_med),
                    z, d, Tail(moisture), z_med)

LowPassUnguarded(conf, z, n, z_low) ==
    [p \in Pixels |-> IF ZLt(z[n][p], z_low) THEN 1 ELSE conf[p]]

\* one pass of the low loop, for the index n
LowPass(conf, z, n, z_low) ==
    [p \in Pixels |->
        IF conf[p] < 1 /\ ZLt(z[n][p], z_low) THEN 1 ELSE conf[p]]

RECURSIVE LowStep(_, _, _, _)
LowStep(conf, z, all_indices, z_low) ==
    IF all_indices = <<>> THEN conf
    ELSE LowStep(LowPass(conf, z, Head(all_indices), z_low),
                 z, Tail(all_indices), z_low)

EmptyGrids == [n \in {} |-> [p \in Pixels |-> NaN]]
EmptyZ == [n \in {} |-> [p \in Pixels |-> ZNaN]]
Zeros == [p \in Pixels |-> 0]

Pending ==
    [status |-> "pending", z |-> EmptyZ, delta |-> EmptyGrids,
     confidence |-> Zeros, is_alert |-> [p \in Pixels |-> FALSE]]

\* list(results.values())[0] on an empty dict
RaisedIndexError ==
    [status |-> "IndexError", z |-> EmptyZ, delta |-> EmptyGrids,
     confidence |-> Zeros, is_alert |-> [p \in Pixels |-> FALSE]]

detect_deforestation(cur, means, stds, spi) ==
    LET avail == AvailableIndices(cur, means)
        names == SeqRange(avail)
        z == [n \in names |-> compute_zscore(cur[n], means[n], stds[n], DEFAULT_MIN_STD)]
        d == [n \in names |-> compute_delta(cur[n], means[n])]
        moisture == MoistureIndices(avail)
        c3 == HighStep(Zeros, z, d, moisture, ZHigh(spi))
        c2 == MediumStep(c3, z, d, moisture, ZMed(spi))
        c1 == LowStep(c2, z, avail, ZLow(spi))
    IN  IF avail = <<>> THEN RaisedIndexError
        ELSE [status |-> "ok", z |-> z, delta |-> d, confidence |-> c1,
              is_alert |-> [p \in Pixels |-> c1[p] > 0]]


---------------------------------------------------------------------------
(* src/detection/alerts.py: vectorize_alerts                               *)
(*                                                                         *)
(* A confidence raster is [res, values]: the cell size in metres of its    *)
(* affine transform (north-up, cell edges on whole multiples of res, so    *)
(* that the inverse transform of a polygon's bounds gives whole cell       *)
(* indices) and the level of every cell.  A polygon is kept as the set of  *)
(* cells it covers.  Areas are in square metres; hectares are kept in      *)
(* hundredths, the precision of round(area_ha, 2).                         *)

\* config/settings.py MIN_ALERT_AREA_HA = 1.0, in hundredths of a hectare
MIN_ALERT_AREA_HA == 100

Max(S) == CHOOSE x \in S : \A y \in S : y <= x
Min(S) == CHOOSE x \in S : \A y \in S : x <= y

\* alert_mask: the cells with confidence >= min_confidence
AlertMask(values, min_confidence) == {c \in Cells : values[c] >= min_confidence}

\* rasterio.features.shapes with its default connectivity of 4
Adjacent(a, b) ==
    \/ (a[1] = b[1] /\ (a[2] - b[2] \in {-1, 1}))
    \/ (a[2] = b[2] /\ (a[1] - b[1] \in {-1, 1}))

RECURSIVE Grow(_, _)
Grow(S, mask) ==
    LET T == S \cup {c \in mask : \E x \in S : Adjacent(c, x)}
    IN  IF T = S THEN S ELSE Grow(T, mask)

\* the shapes of the mask: one polygon per connected region
RECURSIVE Shapes(_)
Shapes(mask) ==
    IF mask = {} THEN {}
    ELSE LET g == Grow({CHOOSE c \in mask : TRUE}, mask)
         IN  {g} \cup Shapes(mask \ g)

\* polygon.area, in square metres
PolygonArea(geom, res) == Cardinality(geom) * res * res

\* "if area_ha < min_area_ha: continue", with area_ha = area / 10_000 and
\* min_area_ha in hundredths of a hectare
BelowMinAreaOrEqual(area, min_area_ha) == area <= min_area_ha * 100
BelowMinArea(area, min_area_ha) == area < min_area_ha * 100

\* round(area_ha, 2), in hundredths of a hectare (whole for the cell sizes used)
RoundedAreaHa(area) == (area + 50) \div 100

\* _assign_polygon_confidence for one polygon: the maximum of the window
\* conf_values[r0:r1, c0:c1] cut from the polygon's bounds
PolygonConfidence(geom, values) ==
    LET row_min == Min({c[1] : c \in geom})
        row_max == Max({c[1] : c \in geom}) + 1
        col_min == Min({c[2] : c \in geom})
        col_max == Max({c[2] : c \in geom}) + 1
        r0 == Max({0, row_min})
        r1 == Min({Cardinality(Rows), row_max + 1})
        c0 == Max({0, col_min})
        c1 == Min({Cardinality(Cols), col_max + 1})
        window == {c \in Cells : r0 <= c[1] /\ c[1] < r1 /\ c0 <= c[2] /\ c[2] < c1}
    IN  IF r0 >= r1 \/ c0 >= c1 THEN 1
        ELSE Max({values[c] : c \in window})

FrameColumns == {"geometry", "confidence", "area_ha"}
Frame(rows) == [kind |-> "GeoDataFrame", columns |-> FrameColumns, rows |-> rows]

NoFrame == [kind |-> "None", columns |-> {}, rows |-> {}]
\* gpd.GeoDataFrame(columns=["geometry", "confidence", "area_ha"], crs=TARGET_CRS)
EmptyFrame == Frame({})

vectorize_alerts(confidence, min_confidence, min_area_ha) ==
    LET alert_mask == AlertMask(confidence.values, min_confidence)
        records == {g \in Shapes(alert_mask) :
                       ~BelowMinArea(PolygonArea(g, confidence.res), min_area_ha)}
    IN  IF alert_mask = {} THEN EmptyFrame
        ELSE IF records = {} THEN EmptyFrame
        ELSE Frame({[geometry |-> g,
                     area_ha |-> RoundedAreaHa(PolygonArea(g, confidence.res)),
                     confidence |-> PolygonConfidence(g, confidence.values)]
                    : g \in records})

---------------------------------------------------------------------------
(* src/detection/alerts.py save_alerts and summarize_alerts,               *)
(* src/timeseries/builder.py store_alert_stats, and the part of the scene  *)
(* loop of scripts/run_detection.py that calls them.  The created_at       *)
(* stamps of the file and of the table are left out.                       *)

\* scene_date = str(item.datetime)[:10] of the scenes the search returns
Dates == {"2024-06-10", "2024-06-15"}

\* confidence_labels of save_alerts; .map() gives NaN for any other value
ConfidenceLabel(c) ==
    CASE c = 1 -> "low" [] c = 2 -> "medium" [] c = 3 -> "high" [] OTHER -> "NaN"

\* a file of ALERTS_DIR: readable is FALSE for a file whose GeoJSON text is cut short
NoFile == [exists |-> FALSE, readable |-> FALSE, crs |-> "", rows |-> {}]
NoFiles == [d \in Dates |-> NoFile]

\* what save_alerts writes to alerts_<detection_date>.geojson: the polygons in
\* EPSG:4326 with detection_date and confidence_label added; to_file replaces
\* the file
SavedFile(gdf, detection_date) ==
    [exists |-> TRUE, readable |-> TRUE, crs |-> "EPSG:4326",
     rows |-> {[geometry |-> r.geometry, area_ha |-> r.area_ha,
                confidence |-> r.confidence, detection_date |-> detection_date,
                confidence_label |-> ConfidenceLabel(r.confidence)]
               : r \in gdf.rows}]

save_alerts(files, gdf, detection_date) ==
    [files EXCEPT ![detection_date] = SavedFile(gdf, detection_date)]

RECURSIVE SumAreaHa(_)
SumAreaHa(rows) ==
    IF rows = {} THEN 0
    ELSE LET r == CHOOSE x \in rows : TRUE
         IN  r.area_ha + SumAreaHa(rows \ {r})

summarize_alerts(gdf) ==
    [total_alerts |-> Cardinality(gdf.rows),
     total_area_ha |-> SumAreaHa(gdf.rows),
     high |-> Cardinality({r \in gdf.rows : r.confidence = 3}),
     medium |-> Cardinality({r \in gdf.rows : r.confidence = 2}),
     low |-> Cardinality({r \in gdf.rows : r.confidence = 1})]

\* a table of the SQLite store is the sequence of its rows in rowid order; the
\* id and created_at columns are left out
NoRows == <<>>
NoStats == NoRows

\* two rows agree on every column of a UNIQUE constraint
SameKey(a, b, key) == \A k \in key : a[k] = b[k]

\* INSERT of a row, with no conflict clause and no constraint to stop it
InsertPlain(table, key, row) == Append(table, row)

\* INSERT OR REPLACE of a row into a table with UNIQUE(key): the rows that
\* conflict with it are deleted and the new row gets the next rowid
InsertOrReplace(table, key, row) ==
    Append(SelectSeq(table, LAMBDA r : ~SameKey(r, row, key)), row)

\* UNIQUE(date) of alert_stats, UNIQUE(date, index_name, region) of regional_stats
AlertStatsKey == {"date"}
RegionalStatsKey == {"date", "index_name", "region"}

store_alert_stats(table, date, summary) ==
    InsertOrReplace(table, AlertStatsKey,
        [date |-> date, total_alerts |-> summary.total_alerts,
         total_area_ha |-> summary.total_area_ha,
         high_confidence |-> summary.high,
         medium_confidence |-> summary.medium,
         low_confidence |-> summary.low])

\* numpy on a flattened array, kept as a sequence: the valid (non-NaN) values
ValidValues(values) ==
    LET kept == SelectSeq(values, LAMBDA x : ~x.nan)
    IN  [i \in 1..Len(kept) |-> kept[i].v]

RECURSIVE SumSeq(_)
SumSeq(xs) == IF xs = <<>> THEN 0 ELSE Head(xs) + SumSeq(Tail(xs))

RECURSIVE InsertSorted(_, _)
InsertSorted(x, ys) ==
    IF ys = <<>> THEN <<x>>
    ELSE IF x <= Head(ys) THEN <<x>> \o ys
    ELSE <<Head(ys)>> \o InsertSorted(x, Tail(ys))

RECURSIVE Sort(_)
Sort(xs) == IF xs = <<>> THEN <<>> ELSE InsertSorted(Head(xs), Sort(Tail(xs)))

\* np.median: the middle value, or the mean of the two middle values
Median(xs) ==
    LET sorted == Sort(xs)
        n == Len(xs)
    IN  IF n % 2 = 1 THEN sorted[(n + 1) \div 2]
        ELSE (sorted[n \div 2] + sorted[n \div 2 + 1]) \div 2

\* the integer square root, by bisection
RECURSIVE SqrtBetween(_, _, _)
SqrtBetween(lo, hi, v) ==
    IF lo >= hi THEN lo
    ELSE LET mid == (lo + hi + 1) \div 2
         IN  IF mid <= v \div mid THEN SqrtBetween(mid, hi, v)
             ELSE SqrtBetween(lo, mid - 1, v)

ISqrt(v) == SqrtBetween(0, v, v)

\* n * sum(x^2) - sum(x)^2, which is n^2 times the population variance
ScaledVariance(xs) ==
    Len(xs) * SumSeq([i \in 1..Len(xs) |-> xs[i] * xs[i]]) - SumSeq(xs) * SumSeq(xs)

\* np.std (ddof = 0), to the thousandth
Std(xs) == ISqrt(ScaledVariance(xs)) \div Len(xs)

SeqMin(xs) == CHOOSE x \in {xs[i] : i \in 1..Len(xs)} : \A j \in 1..Len(xs) : x <= xs[j]
SeqMax(xs) == CHOOSE x \in {xs[i] : i \in 1..Len(xs)} : \A j \in 1..Len(xs) : x >= xs[j]

\* the stats dict of store_regional_stats; pct_valid in thousandths of a percent
RegionalRow(date, index_name, index_data, region) ==
    LET valid == ValidValues(index_data)
    IN  [date |-> date, index_name |-> index_name, region |-> region,
         mean |-> SumSeq(valid) \div Len(valid),
         median |-> Median(valid),
         std |-> Std(valid),
         min |-> SeqMin(valid),
         max |-> SeqMax(valid),
         pct_valid |-> (Len(valid) * 100000) \div Len(index_data),
         n_pixels |-> Len(valid)]

\* "if len(valid) == 0: return": nothing is written for an all-NaN raster
NothingValid(index_data) == Len(ValidValues(index_data)) = 0

store_regional_stats(table, date, index_name, index_data, region) ==
    IF NothingValid(index_data) THEN table
    ELSE InsertOrReplace(table, RegionalStatsKey,
                         RegionalRow(date, index_name, index_data, region))

\* what the latest writing call left under each key (no row, or its row), and
\* the tables in which a call has written over a row of an earlier call
NoLog ==
    [regional_stats |-> [k \in Dates \X {"ndmi", "nbr"} \X {"full_aoi", "chapada"} |-> <<>>],
     alert_stats |-> [d \in Dates |-> <<>>],
     overwritten |-> {}]

NoRun == [ran |-> FALSE, gdf |-> NoFrame]
NoRuns == [d \in Dates |-> NoRun]

\* "if not alerts_gdf.empty": the frame has rows
NotEmpty(gdf) == gdf.rows # {}

\* run_detection.py lines 195-214 for one scene: vectorize the confidence
\* raster of the detection with the defaults, and save the alerts and their
\* summary under the scene's date unless the frame is empty
VectorizeAndSave(scene_date, confidence) ==
    LET alerts_gdf == vectorize_alerts(confidence, 1, MIN_ALERT_AREA_HA)
    IN  /\ last_run' = [last_run EXCEPT ![scene_date] = [ran |-> TRUE, gdf |-> alerts_gdf]]
        /\ IF NotEmpty(alerts_gdf)
           THEN /\ alert_files' = save_alerts(alert_files, alerts_gdf, scene_date)
                /\ alert_stats' = store_alert_stats(alert_stats, scene_date,
                                                    summarize_alerts(alerts_gdf))
           ELSE UNCHANGED <<alert_files, alert_stats, callVars>>
        /\ UNCHANGED <<score, detectVars, vec, storeVars, batchVars, analyticsVars,
                   callVars>>

---------------------------------------------------------------------------
(* src/detection/alerts.py load_alerts: reading the alert files back *)

\* what gpd.read_file gives for a file: its records, or an error for a file
\* that is not complete GeoJSON
read_file(file) ==
    IF file.readable THEN [raised |-> "", crs |-> file.crs, rows |-> file.rows]
    ELSE [raised |-> "DataSourceError", crs |-> "", rows |-> {}]

\* load_alerts(date): the file of that date
load_alerts(files, date) ==
    IF ~files[date].exists
    THEN [raised |-> "FileNotFoundError", crs |-> "", rows |-> {}]
    ELSE read_file(files[date])

\* load_alerts(): every alerts_*.geojson of the directory, read and concatenated
load_all_alerts(files) ==
    LET geojson_files == {d \in Dates : files[d].exists}
    IN  IF geojson_files = {} THEN [raised |-> "", crs |-> "EPSG:4326", rows |-> {}]
        ELSE IF \E d \in geojson_files : read_file(files[d]).raised # ""
        THEN [raised |-> "DataSourceError", crs |-> "", rows |-> {}]
        ELSE [raised |-> "", crs |-> "EPSG:4326",
              rows |-> UNION {read_file(files[d]).rows : d \in geojson_files}]

\* load_alert_timeseries: SELECT * FROM alert_stats ... ORDER BY date, here
\* for one date
load_alert_timeseries(table, date) == SelectSeq(table, LAMBDA r : r.date = date)

\* load_timeseries: the regional_stats rows of an index, here for one date
load_timeseries(table, index_name, region, date) ==
    SelectSeq(table, LAMBDA r : r.index_name = index_name /\ r.region = region
                                /\ r.date = date)

---------------------------------------------------------------------------
(* The scene loops of scripts/run_detection.py and scripts/build_baseline.py. *)
(* A scene is named by its date.  What loading, masking and scoring give    *)
(* for it is drawn when the loop reaches it, and so is the step, if any,    *)
(* that raises.                                                             *)

\* the most scenes one search returns
MaxScenes == 2

\* "for item in items_sorted[:5]"
SceneLimit == 5

\* index_list
RunIndices == <<"ndmi", "nbr">>

\* region of store_regional_stats, left at its default
DefaultRegion == "full_aoi"

\* the steps of one pass of the run_detection loop that can raise, in order;
\* to_crs and to_file are the two steps of save_alerts, alert_stats is the
\* insert of store_alert_stats
Stages == <<"load", "mask", "indices", "regional_stats", "detect", "vectorize",
            "to_crs", "to_file", "alert_stats">>

StageNo(stage) == CHOOSE i \in 1..Len(Stages) : Stages[i] = stage

\* where a pass raises: the step and, for the per-index loops, the index
NoFailure == [stage |-> "", call |-> 0]
FailurePoints ==
    {[stage |-> Stages[i], call |-> 1] : i \in (1..Len(Stages)) \ {StageNo("regional_stats")}}
    \cup {[stage |-> "regional_stats", call |-> k] : k \in 1..Len(RunIndices)}

\* the step completes: nothing raises, or a later step does
Completes(fail, stage) == fail.stage = "" \/ StageNo(fail.stage) > StageNo(stage)

\* to_file writes to alerts_<detection_date>.geojson itself: cut short, it
\* leaves that file with incomplete GeoJSON text
InterruptedSave(files, detection_date) ==
    [files EXCEPT ![detection_date] =
        [exists |-> TRUE, readable |-> FALSE, crs |-> "", rows |-> {}]]

\* an insert that raises before conn.commit() is rolled back by SQLite
InterruptedInsert(table, key, row) == table

\* whether the control flow of a pass gets to a step: the clear-pixel test
\* follows loading and masking, the baseline test follows the regional
\* stats, and saving needs a frame with rows
StageRuns(stage, scene, alerts_gdf) ==
    CASE stage \in {"load", "mask"} -> TRUE
      [] stage \in {"indices", "regional_stats"} -> scene.clear
      [] stage \in {"detect", "vectorize"} -> scene.clear /\ scene.baselines
      [] OTHER -> scene.clear /\ scene.baselines /\ NotEmpty(alerts_gdf)

\* "for idx_name in index_list: store_regional_stats(...)", for the first
\* upto indices
RECURSIVE StoreRegionalLoop(_, _, _, _)
StoreRegionalLoop(table, scene_date, index_data, upto) ==
    IF upto = 0 THEN table
    ELSE store_regional_stats(
             StoreRegionalLoop(table, scene_date, index_data, upto - 1),
             scene_date, RunIndices[upto], index_data, DefaultRegion)

NoBatch ==
    [script |-> "", items |-> <<>>, pos |-> 1, status |-> "idle",
     processed |-> <<>>, failed |-> {}, raised |-> "", needed |-> {},
     built |-> {}, exit_code |-> 0, current_month |-> 0, baseline_loads |-> {}]

\* the scenes the loop goes through
Selected(b) ==
    IF b.script = "run_detection" /\ Len(b.items) > SceneLimit
    THEN SubSeq(b.items, 1, SceneLimit)
    ELSE b.items

\* "load_baseline_pair(idx_name, current_month)" for every index of the pass
\* at b.pos: the month asked for, and whether any pair was found
LoadBaselines(b, found) ==
    [b EXCEPT !.baseline_loads =
        @ \cup {[pos |-> b.pos, month |-> b.current_month, found |-> found]}]

\* the end of a pass that raised nothing (or hit "continue")
SceneDone(b) ==
    [b EXCEPT !.pos = @ + 1, !.processed = Append(@, b.pos), !.raised = ""]

\* a loop without the try: the error leaves main
SceneFailedAborts(b, stage) ==
    [b EXCEPT !.status = "aborted", !.processed = Append(@, b.pos),
              !.failed = @ \cup {b.pos}, !.raised = stage, !.exit_code = 1]

\* "except Exception as e: logger.error(...); continue"
SceneFailed(b, stage) ==
    [b EXCEPT !.pos = @ + 1, !.processed = Append(@, b.pos),
              !.failed = @ \cup {b.pos}, !.raised = stage]

\* one pass of the loop of run_detection.py (lines 124-218) for the scene at
\* batch.pos
ProcessScene(scene, fail) ==
    /\ batch.script = "run_detection"
    /\ batch.status = "running"
    /\ batch.pos <= Len(Selected(batch))
    /\ LET scene_date == Selected(batch)[batch.pos]
           alerts_gdf == vectorize_alerts(scene.confidence, 1, MIN_ALERT_AREA_HA)
           f == IF fail.stage # "" /\ StageRuns(fail.stage, scene, alerts_gdf)
                THEN fail ELSE NoFailure
           stored == IF ~scene.clear \/ ~Completes(f, "indices") THEN 0
                     ELSE IF f.stage = "regional_stats" THEN f.call - 1
                     ELSE Len(RunIndices)
           saving == /\ scene.clear /\ scene.baselines /\ NotEmpty(alerts_gdf)
                     /\ Completes(f, "vectorize")
           loaded == IF scene.clear /\ Completes(f, "regional_stats")
                     THEN LoadBaselines(batch, scene.baselines) ELSE batch
       IN  /\ batch' = IF f.stage = "" THEN SceneDone(loaded)
                       ELSE SceneFailed(loaded, f.stage)
           /\ regional_stats' = StoreRegionalLoop(regional_stats, scene_date,
                                                  scene.index_data, stored)
           /\ alert_files' =
                 IF ~saving \/ f.stage = "to_crs" THEN alert_files
                 ELSE IF f.stage = "to_file" THEN InterruptedSave(alert_files, scene_date)
                 ELSE save_alerts(alert_files, alerts_gdf, scene_date)
           /\ alert_stats' =
                 IF ~saving \/ ~Completes(f, "to_file") THEN alert_stats
                 ELSE IF f.stage = "alert_stats"
                 THEN InterruptedInsert(alert_stats, AlertStatsKey,
                                        summarize_alerts(alerts_gdf))
                 ELSE store_alert_stats(alert_stats, scene_date,
                                        summarize_alerts(alerts_gdf))
    /\ UNCHANGED <<score, detectVars, vec, last_run, store_log, arrays_by_idx_month,
                   analyticsVars, callVars>>

\* scene_month = int(scene_date[5:7])
SceneMonth(scene_date) ==
    CASE scene_date = "2024-06-10" -> 6 [] scene_date = "2024-06-15" -> 6

\* the months a baseline build can be asked for
BuildMonths == {6, 7}
NoArrays == [k \in {RunIndices[i] : i \in 1..Len(RunIndices)} \X BuildMonths |-> 0]

\* "arrays_by_idx_month[key].append(idx_ds[idx_name].compute())" for the
\* first upto indices that need the scene's month
KeepArrays(arrays, needed, scene_month, upto) ==
    [k \in DOMAIN arrays |->
        IF /\ \E i \in 1..upto : RunIndices[i] = k[1]
           /\ k[2] = scene_month
           /\ <<k[1], scene_month>> \in needed
        THEN arrays[k] + 1 ELSE arrays[k]]

\* the steps of one pass of the build_baseline loop that can raise
BuildFailurePoints ==
    {[stage |-> st, call |-> 1] : st \in {"load", "mask", "indices"}}
    \cup {[stage |-> "compute", call |-> k] : k \in 1..Len(RunIndices)}

\* one pass of the loop of build_baseline.py (lines 180-240) for the scene at
\* batch.pos; needed holds the (index, month) pairs still to build
BuildScene(fail) ==
    /\ batch.script = "build_baseline"
    /\ batch.status = "running"
    /\ batch.pos <= Len(Selected(batch))
    /\ LET scene_month == SceneMonth(Selected(batch)[batch.pos])
           month_needed_by_any == \E k \in batch.needed : k[2] = scene_month
           f == IF month_needed_by_any THEN fail ELSE NoFailure
           kept == IF ~month_needed_by_any \/ f.stage \in {"load", "mask", "indices"}
                   THEN 0
                   ELSE IF f.stage = "compute" THEN f.call - 1
                   ELSE Len(RunIndices)
       IN  /\ arrays_by_idx_month' =
                 KeepArrays(arrays_by_idx_month, batch.needed, scene_month, kept)
           /\ batch' = IF f.stage = "" THEN SceneDone(batch)
                       ELSE SceneFailed(batch, f.stage)
    /\ UNCHANGED <<score, detectVars, vec, runVars, storeVars, analyticsVars,
                   callVars>>

\* what follows the loop.  run_detection returns before the loop when the
\* search gave nothing, and logs the totals after it; build_baseline leaves
\* with sys.exit(1) when the search gave nothing, and after the loop builds
\* the composite of every needed pair that has arrays, each under its own
\* try: the pairs in lost are those whose build raised
Finish(lost) ==
    /\ batch.status = "running"
    /\ batch.pos > Len(Selected(batch))
    /\ batch' =
          [batch EXCEPT
              !.status = "ended",
              !.exit_code = IF batch.script = "build_baseline" /\ Len(batch.items) = 0
                            THEN 1 ELSE 0,
              !.built = IF batch.script = "build_baseline"
                        THEN {k \in batch.needed : arrays_by_idx_month[k] > 0} \ lost
                        ELSE {}]
    /\ UNCHANGED <<score, detectVars, vec, runVars, storeVars, arrays_by_idx_month,
                   analyticsVars, callVars>>

---------------------------------------------------------------------------
(* src/timeseries/trends.py: mann_kendall_test                              *)
(*                                                                         *)
(* A series is a sequence of values, NaN among them.  tau is kept as the   *)
(* fraction num/den.  z is kept by its square zsq_num/zsq_den, and the     *)
(* p-value 2 * (1 - cdf(|z|)) by that same square: it is 1 exactly when z  *)
(* is 0, and it is below 0.05 exactly when |z| is above the 97.5th         *)
(* percentile of the standard normal, 1.959964, whose square is 3.84146.   *)

\* the longest series
MaxLen == 5

Sign(diff) == IF diff > 0 THEN 1 ELSE IF diff < 0 THEN -1 ELSE 0

\* the S statistic, were only neighbouring pairs compared
SStatisticAdjacent(clean) ==
    SumSeq([i \in 1..(Len(clean) - 1) |-> Sign(clean[i + 1] - clean[i])])

\* S: over all pairs i < j, +1 for a rise and -1 for a fall
SStatistic(clean) ==
    SumSeq([i \in 1..Len(clean) |->
               SumSeq([j \in 1..Len(clean) |->
                          IF i < j THEN Sign(clean[j] - clean[i]) ELSE 0])])

\* np.unique(clean, return_counts=True): the sizes of the groups of equal
\* values, as value -> count
TieCounts(clean) ==
    [x \in {clean[i] : i \in 1..Len(clean)} |->
        Cardinality({i \in 1..Len(clean) : clean[i] = x})]

RECURSIVE TieTerm(_, _)
TieTerm(counts, xs) ==
    IF xs = {} THEN 0
    ELSE LET x == CHOOSE y \in xs : TRUE
             t == counts[x]
         IN  (IF t > 1 THEN t * (t - 1) * (2 * t + 5) ELSE 0) + TieTerm(counts, xs \ {x})

\* 18 * var_s: n(n-1)(2n+5) less t(t-1)(2t+5) for every tied group
VarS18(clean) ==
    LET n == Len(clean)
        counts == TieCounts(clean)
    IN  n * (n - 1) * (2 * n + 5) - TieTerm(counts, DOMAIN counts)

\* z*z as a fraction: z = (s - 1) / sqrt(var_s) for s > 0, (s + 1) / sqrt(var_s)
\* for s < 0, and 0 for s = 0 or var_s = 0
ZSquared(s, var18) ==
    IF s = 0 \/ var18 <= 0 THEN [num |-> 0, den |-> 1]
    ELSE LET a == IF s > 0 THEN s - 1 ELSE s + 1
         IN  [num |-> 18 * a * a, den |-> var18]

\* p_value < 0.05
PBelowAlpha(zsq) == zsq.num * 100000 > 384146 * zsq.den

\* "if n < 4", with the bound at 3
TooFewBelowThree(n) == n < 3

\* "if n < 4"
TooFew(n) == n < 4

NoTrendResult ==
    [tau |-> [num |-> 0, den |-> 1], p_value |-> [zsq_num |-> 0, zsq_den |-> 1],
     trend |-> "", significant |-> FALSE, n |-> 0]

mann_kendall_test(values) ==
    LET clean == ValidValues(values)
        n == Len(clean)
        s == SStatistic(clean)
        zsq == ZSquared(s, VarS18(clean))
        significant == PBelowAlpha(zsq)
    IN  IF TooFew(n)
        THEN [tau |-> [num |-> 0, den |-> 1],
              p_value |-> [zsq_num |-> 0, zsq_den |-> 1],
              trend |-> "insufficient_data", significant |-> FALSE, n |-> n]
        ELSE [tau |-> [num |-> 2 * s, den |-> n * (n - 1)],
              p_value |-> [zsq_num |-> zsq.num, zsq_den |-> zsq.den],
              trend |-> IF significant
                        THEN (IF s > 0 THEN "increasing" ELSE "decreasing")
                        ELSE "no_trend",
              significant |-> significant, n |-> n]

TrendUnset == [values |-> <<>>, done |-> FALSE, result |-> NoTrendResult]

\* one call of mann_kendall_test
MannKendall ==
    /\ ~trend.done
    /\ trend' = [trend EXCEPT !.done = TRUE, !.result = mann_kendall_test(trend.values)]
    /\ UNCHANGED <<score, detectVars, vec, runVars, storeVars, batchVars, monitor, spi_call,
                   callVars>>

---------------------------------------------------------------------------
(* src/timeseries/seasonal.py: harmonic_fit and detect_breaks_harmonic      *)
(*                                                                         *)
(* Dates are day numbers.  np.linalg.lstsq is not computed: the            *)
(* coefficients it returns are an argument of the model, and the curves    *)
(* drawn for it are constant (all harmonic coefficients 0), so that         *)
(* X @ coeffs is the intercept at every date.  The RMSE is kept by its     *)
(* square ssr/n_valid, and threshold_factor is in tenths, so that          *)
(* "|anomaly| > threshold_factor * rmse" is decided exactly.               *)

\* the most observations dated up to history_end, and after it
MaxHist == 2
MaxMonitor == 4

\* the positions of the observations a mask keeps
Masked(dates, history_end, in_history) ==
    SelectSeq([i \in 1..Len(dates) |-> i],
              LAMBDA i : (dates[i] <= history_end) = in_history)

\* X.shape[1]: the intercept and a cosine and a sine for every harmonic
DesignWidth(n_harmonics) == 1 + 2 * n_harmonics

\* the guard of harmonic_fit, letting through any series with a valid value
NoneValid(n_valid, width) == n_valid = 0

\* "if len(y_valid) < X.shape[1]"
TooFewValid(n_valid, width) == n_valid < width

\* X @ coeffs at one date
Fitted(coeffs, date) == coeffs.intercept

\* harmonic_fit on the observations at positions idx: rmse is NaN (nan) when
\* there are too few valid values, else sqrt(ssr / n_valid)
harmonic_fit(dates, values, idx, n_harmonics, coeffs) ==
    LET valid == SelectSeq(idx, LAMBDA i : ~values[i].nan)
        residuals == [k \in 1..Len(valid) |->
                         values[valid[k]].v - Fitted(coeffs, dates[valid[k]])]
    IN  IF TooFewValid(Len(valid), DesignWidth(n_harmonics))
        THEN [rmse_nan |-> TRUE, ssr |-> 0, n_valid |-> Len(valid)]
        ELSE [rmse_nan |-> Len(valid) = 0,
              ssr |-> SumSeq([k \in 1..Len(residuals) |-> residuals[k] * residuals[k]]),
              n_valid |-> Len(valid)]

\* is_anomaly: |anomaly| > threshold_factor * rmse, FALSE for a NaN anomaly
IsAnomaly(value, expected, fit, threshold_factor) ==
    /\ ~value.nan
    /\ (value.v - expected) * (value.v - expected) * fit.n_valid * 100
          > threshold_factor * threshold_factor * fit.ssr

\* the observation a confirmed break reports, were it the one that confirms it
BreakIndexLast(i, n_consecutive) == i

\* "break_idx = i - n_consecutive + 1"
BreakIndex(i, n_consecutive) == i - n_consecutive + 1

\* a count that is kept across a confirmed break, one short of the next
CountKept(n_consecutive) == n_consecutive - 1

\* "consecutive_count = 0" once a break has been appended
CountAfterBreak(n_consecutive) == 0

\* the loop over the monitoring observations (lines 250-266), from position i
RECURSIVE BreakLoop(_, _, _, _, _)
BreakLoop(i, consecutive_count, breaks, obs, n_consecutive) ==
    IF i > Len(obs) THEN breaks
    ELSE IF obs[i].is_anomaly /\ ~obs[i].value.nan
    THEN IF consecutive_count + 1 >= n_consecutive
         THEN LET first == obs[BreakIndex(i, n_consecutive)]
              IN  BreakLoop(i + 1, CountAfterBreak(n_consecutive),
                            Append(breaks,
                                   [date |-> first.date, value |-> first.value.v,
                                    expected |-> first.expected,
                                    anomaly |-> first.value.v - first.expected]),
                            obs, n_consecutive)
         ELSE BreakLoop(i + 1, consecutive_count + 1, breaks, obs, n_consecutive)
    ELSE BreakLoop(i + 1, 0, breaks, obs, n_consecutive)

detect_breaks_harmonic(dates, values, history_end, n_harmonics, threshold_factor, n_consecutive, coeffs) ==
    LET history == Masked(dates, history_end, TRUE)
        monitoring == Masked(dates, history_end, FALSE)
        fit == harmonic_fit(dates, values, history, n_harmonics, coeffs)
        obs == [k \in 1..Len(monitoring) |->
                   LET i == monitoring[k]
                   IN  [date |-> dates[i], value |-> values[i],
                        expected |-> Fitted(coeffs, dates[i]),
                        is_anomaly |-> IsAnomaly(values[i], Fitted(coeffs, dates[i]),
                                                 fit, threshold_factor)]]
    IN  IF fit.rmse_nan THEN <<>>
        ELSE BreakLoop(1, 0, <<>>, obs, n_consecutive)

MonitorUnset ==
    [dates |-> <<>>, values |-> <<>>, history_end |-> 0, n_harmonics |-> 0,
     threshold_factor |-> 0, n_consecutive |-> 0, coeffs |-> [intercept |-> 0],
     done |-> FALSE, breaks |-> <<>>]

\* one call of detect_breaks_harmonic
DetectBreaks ==
    /\ ~monitor.done
    /\ monitor' =
          [monitor EXCEPT
              !.done = TRUE,
              !.breaks = detect_breaks_harmonic(monitor.dates, monitor.values,
                             monitor.history_end, monitor.n_harmonics,
                             monitor.threshold_factor, monitor.n_consecutive,
                             monitor.coeffs)]
    /\ UNCHANGED <<score, detectVars, vec, runVars, storeVars, batchVars, trend, spi_call,
                   callVars>>

---------------------------------------------------------------------------
(* src/processing/spi.py compute_spi and compute_spi_3month,               *)
(* src/acquisition/chirps.py fetch_chirps_range                            *)
(*                                                                         *)
(* Precipitation is in whole millimetres.  A returned float is kept as     *)
(* [kind, num, den_sq]: the number num / sqrt(den_sq), so that a z-score   *)
(* (target - mean) / std is exact; NaN; or the value of the gamma-based    *)
(* transform, which is not computed.  With whole millimetres a standard    *)
(* deviation is below 1e-10 only when it is 0.                             *)

\* the most months one SPI-3 call is given
MaxMonths == 5

ZeroValue == [kind |-> "number", num |-> 0, den_sq |-> 1]
NaNValue == [kind |-> "nan", num |-> 0, den_sq |-> 1]
GammaValue == [kind |-> "gamma", num |-> 0, den_sq |-> 1]
Number(num, den_sq) ==
    IF num = 0 THEN ZeroValue ELSE [kind |-> "number", num |-> num, den_sq |-> den_sq]

\* "float((target - mean) / std) if std > 0 else 0.0" of the fallbacks, with
\* mean and std those of clean, or 0 and 1 where the code puts them in
ZScoreOf(target, clean, default_mean, default_std) ==
    LET n == Len(clean)
        v == ScaledVariance(clean)
    IN  IF default_mean /\ default_std THEN
            (IF target.nan THEN NaNValue ELSE Number(target.v, 1))
        ELSE IF default_std THEN
            (IF target.nan THEN NaNValue ELSE Number(n * target.v - SumSeq(clean), n * n))
        ELSE IF v = 0 THEN ZeroValue
        ELSE IF target.nan THEN NaNValue
        ELSE Number(n * target.v - SumSeq(clean), v)

\* "if np.isnan(target)", never true
TargetNeverMissing(target) == FALSE

\* "if np.isnan(target)"
TargetMissing(target) == target.nan

NoReference == [given |-> FALSE, values |-> <<>>]
Reference(values) == [given |-> TRUE, values |-> values]

\* compute_spi; fit_raises says whether stats.gamma.fit raises if it is called
compute_spi(precipitation, reference_period, fit_raises) ==
    LET reference == IF reference_period.given THEN reference_period.values
                     ELSE precipitation
        target == IF Len(precipitation) > 0 THEN precipitation[Len(precipitation)]
                  ELSE Num(0)
        ref_clean == ValidValues(reference)
        ref_nonzero == SelectSeq(ref_clean, LAMBDA x : x > 0)
    IN  IF TargetMissing(target)
        THEN [value |-> ZeroValue, fit_attempted |-> FALSE]
        ELSE IF Len(ref_nonzero) < 10
        THEN [value |-> ZScoreOf(target, ref_clean, Len(ref_clean) = 0,
                                 Len(ref_clean) <= 1),
              fit_attempted |-> FALSE]
        ELSE IF ScaledVariance(ref_nonzero) = 0
        THEN [value |-> ZeroValue, fit_attempted |-> FALSE]
        ELSE IF fit_raises
        THEN [value |-> ZScoreOf(target, ref_clean, FALSE, FALSE),
              fit_attempted |-> TRUE]
        ELSE [value |-> IF target.nan THEN NaNValue ELSE GammaValue,
              fit_attempted |-> TRUE]

\* np.convolve(arr, np.ones(3), mode="valid"): the sums of every three
\* months in a row, NaN where one of them is NaN
RollingSums(arr) ==
    [i \in 1..(Len(arr) - 2) |->
        IF arr[i].nan \/ arr[i + 1].nan \/ arr[i + 2].nan THEN NaN
        ELSE Num(arr[i].v + arr[i + 1].v + arr[i + 2].v)]

compute_spi_3month(monthly_precip, fit_raises) ==
    IF Len(monthly_precip) < 3
    THEN [value |-> ZeroValue, fit_attempted |-> FALSE]
    ELSE IF Len(RollingSums(monthly_precip)) < 2
    THEN [value |-> ZeroValue, fit_attempted |-> FALSE]
    ELSE compute_spi(RollingSums(monthly_precip), NoReference, fit_raises)

\* fetch_chirps_range: the month's mean precipitation, or NaN for a month
\* whose fetch raised
fetch_chirps_range(fetches) ==
    [i \in 1..Len(fetches) |-> IF fetches[i].raised THEN NaN ELSE fetches[i].val]

SpiUnset ==
    [call |-> "", precipitation |-> <<>>, reference_period |-> NoReference,
     fetches |-> <<>>, fit_raises |-> FALSE, done |-> FALSE,
     result |-> [value |-> ZeroValue, fit_attempted |-> FALSE]]

\* one call of compute_spi
ComputeSpi ==
    /\ spi_call.call = "compute_spi"
    /\ ~spi_call.done
    /\ spi_call' =
          [spi_call EXCEPT
              !.done = TRUE,
              !.result = compute_spi(spi_call.precipitation, spi_call.reference_period,
                                     spi_call.fit_raises)]
    /\ UNCHANGED <<score, detectVars, vec, runVars, storeVars, batchVars, trend, monitor,
                   callVars>>

\* get_current_spi from the fetch on: fetch_chirps_range, then
\* compute_spi_3month on what it returns
ComputeSpi3Month ==
    /\ spi_call.call = "compute_spi_3month"
    /\ ~spi_call.done
    /\ spi_call' =
          [spi_call EXCEPT
              !.done = TRUE,
              !.precipitation = fetch_chirps_range(spi_call.fetches),
              !.result = compute_spi_3month(fetch_chirps_range(spi_call.fetches),
                                            spi_call.fit_raises)]
    /\ UNCHANGED <<score, detectVars, vec, runVars, storeVars, batchVars, trend, monitor,
                   callVars>>


---------------------------------------------------------------------------
(* src/timeseries/trends.py: sens_slope                                     *)
(*                                                                         *)
(* Dates are day numbers, in ascending order as analyze_trend sorts them.  *)
(* A slope is kept per day and as a multiple of 1/SlopeScale, which every   *)
(* time difference of a series divides four times over, so that the         *)
(* pairwise slopes, the mean of two of them and the intercepts are exact;   *)
(* the slopes per year of the code are these times 365.25.  c_alpha is      *)
(* kept by its square.                                                      *)

\* the most observations of a series handed to sens_slope
MaxObs == 6

RECURSIVE Factorial(_)
Factorial(k) == IF k <= 1 THEN 1 ELSE k * Factorial(k - 1)
SlopeScale == 4 * Factorial(MaxObs - 1)

\* "for i in range(n - 1): for j in range(i + 1, n): if dt > 0: append"
RECURSIVE PairSlopes(_, _, _, _)
PairSlopes(t, v, i, j) ==
    IF i > Len(t) - 1 THEN <<>>
    ELSE IF j > Len(t) THEN PairSlopes(t, v, i + 1, i + 2)
    ELSE LET dt == t[j] - t[i]
             rest == PairSlopes(t, v, i, j + 1)
         IN  IF dt > 0 THEN <<((v[j] - v[i]) * SlopeScale) \div dt>> \o rest
             ELSE rest

CAlphaSquaredZero(n) == [num |-> 0, den |-> 1]

\* c_alpha = 1.96 * sqrt(n (n - 1) (2n + 5) / 18), squared:
\* 1.96 * 1.96 / 18 = 38416 / 180000 = 2401 / 11250 in lowest terms
CAlphaSquared(n) == [num |-> 2401 * n * (n - 1) * (2 * n + 5), den |-> 11250]

\* x <= c_alpha and x >= c_alpha for a whole number x
AtMostCAlpha(x, c2) == x <= 0 \/ x * x * c2.den <= c2.num
AtLeastCAlpha(x, c2) == x >= 0 /\ x * x * c2.den >= c2.num

\* m1 = int((len(slopes) - c_alpha) / 2): int() drops the fraction, towards 0
LowerM(n_slopes, n) ==
    LET c2 == CAlphaSquared(n)
    IN  IF AtLeastCAlpha(n_slopes, c2)
        THEN Max({k \in 0..n_slopes : AtLeastCAlpha(n_slopes - 2 * k, c2)})
        ELSE 0 - Max({k \in 0..(n * n) : AtMostCAlpha(n_slopes + 2 * k, c2)})

\* m2 = int((len(slopes) + c_alpha) / 2)
UpperM(n_slopes, n) ==
    Max({k \in 0..(n_slopes + n * n) : AtMostCAlpha(2 * k - n_slopes, CAlphaSquared(n))})

\* the result of a series too short, or with no pair of rising dates
NoSlope ==
    [slope |-> 0, intercept |-> 0, lower_ci |-> 0, upper_ci |-> 0,
     n_slopes |-> 0, lower_rank |-> 0, upper_rank |-> 0]

\* the result, with the number of pairwise slopes and the two ranks
\* (0-based) at which lower_ci and upper_ci were read
sens_slope(dates, values) ==
    LET valid == SelectSeq([i \in 1..Len(values) |-> i], LAMBDA i : ~values[i].nan)
        n == Len(valid)
        t == [k \in 1..n |-> dates[valid[k]] - dates[valid[1]]]
        v == [k \in 1..n |-> values[valid[k]].v]
        slopes == PairSlopes(t, v, 1, 2)
        median_slope == Median(slopes)
        intercepts == [k \in 1..n |-> v[k] * SlopeScale - median_slope * t[k]]
        sorted_slopes == Sort(slopes)
        lower_rank == Max({0, LowerM(Len(slopes), n)})
        upper_rank == Min({Len(sorted_slopes) - 1, UpperM(Len(slopes), n)})
    IN  IF n < 3 \/ slopes = <<>> THEN NoSlope
        ELSE [slope |-> median_slope,
              intercept |-> Median(intercepts),
              lower_ci |-> sorted_slopes[lower_rank + 1],
              upper_ci |-> sorted_slopes[upper_rank + 1],
              n_slopes |-> Len(slopes),
              lower_rank |-> lower_rank, upper_rank |-> upper_rank]

SlopeUnset == [dates |-> <<>>, values |-> <<>>, done |-> FALSE, result |-> NoSlope]

\* one call of sens_slope
SensSlope ==
    /\ ~slope_call.done
    /\ slope_call' = [slope_call EXCEPT
                         !.done = TRUE,
                         !.result = sens_slope(slope_call.dates, slope_call.values)]
    /\ UNCHANGED <<score, detectVars, vec, runVars, storeVars, batchVars, analyticsVars,
                   index_call, search>>

---------------------------------------------------------------------------
(* src/processing/indices.py: compute_index                                *)
(*                                                                         *)
(* A dataset is the set of the band names it holds.  The arithmetic of an  *)
(* index is not computed: a call either raises KeyError, at the lookup of  *)
(* the index name or of a band, or returns a grid named after the index.   *)

\* the keys of INDEX_FUNCTIONS
INDEX_FUNCTIONS == {"ndvi", "evi2", "ndmi", "nbr", "savi", "bsi"}

NoKwargs == [k \in {} |-> ""]

LANDSAT_BAND_OVERRIDES ==
    [i \in {"ndvi", "evi2", "savi", "bsi"} |-> [nir |-> "nir08"]]

\* the default of the nir parameter of an index function
DefaultNir(index_name) == IF index_name \in {"ndmi", "nbr"} THEN "nir08" ELSE "nir"

\* the bands an index function reads with ds[...], nir being its nir parameter
BandsRead(index_name, nir) ==
    CASE index_name = "ndvi" -> {nir, "red"}
      [] index_name = "evi2" -> {nir, "red"}
      [] index_name = "ndmi" -> {nir, "swir16"}
      [] index_name = "nbr"  -> {nir, "swir22"}
      [] index_name = "savi" -> {nir, "red"}
      [] index_name = "bsi"  -> {"swir16", "red", nir, "blue"}

\* a lookup that yields a NaN band where the dataset has none
LookupFills(ds, band) == TRUE

\* ds[band] succeeds
Lookup(ds, band) == band \in ds

compute_index(ds, index_name, sensor) ==
    IF index_name \notin INDEX_FUNCTIONS
    THEN [raised |-> "KeyError", name |-> ""]
    ELSE LET kwargs == IF sensor \in {"landsat", "hls"}
                          /\ index_name \in DOMAIN LANDSAT_BAND_OVERRIDES
                       THEN LANDSAT_BAND_OVERRIDES[index_name]
                       ELSE NoKwargs
             nir == IF "nir" \in DOMAIN kwargs THEN kwargs.nir
                    ELSE DefaultNir(index_name)
         IN  IF \A band \in BandsRead(index_name, nir) : Lookup(ds, band)
             THEN [raised |-> "", name |-> index_name]
             ELSE [raised |-> "KeyError", name |-> ""]

IndexUnset ==
    [ds |-> {}, index_name |-> "", sensor |-> "", done |-> FALSE,
     result |-> [raised |-> "", name |-> ""]]

\* one call of compute_index
ComputeIndex ==
    /\ ~index_call.done
    /\ index_call' =
          [index_call EXCEPT
              !.done = TRUE,
              !.result = compute_index(index_call.ds, index_call.index_name,
                                       index_call.sensor)]
    /\ UNCHANGED <<score, detectVars, vec, runVars, storeVars, batchVars, analyticsVars,
                   slope_call, search>>

---------------------------------------------------------------------------
(* src/acquisition/stac_client.py: search_sentinel2_with_fallback          *)
(*                                                                         *)
(* What a catalogue answers to a query is not computed: the answer of      *)
(* each provider, a list of items or an error, is part of the call's       *)
(* surroundings.  The calls made are kept in order, with their arguments.  *)

\* the query one provider is sent
Query(provider, args) ==
    [provider |-> provider, bbox |-> args.bbox, datetime_range |-> args.datetime_range,
     max_cloud_cover |-> args.max_cloud_cover, max_items |-> args.max_items]

\* a test that takes any answer for one with items
HasItemsAlways(items) == TRUE

\* "if len(items) > 0"
HasItems(items) == Len(items) > 0

search_sentinel2_with_fallback(args, element84, planetary_computer) ==
    IF element84.raised
    THEN [calls |-> <<Query("element84", args)>>, raised |-> TRUE, returned |-> <<>>]
    ELSE IF HasItems(element84.items)
    THEN [calls |-> <<Query("element84", args)>>, raised |-> FALSE,
          returned |-> element84.items]
    ELSE [calls |-> <<Query("element84", args), Query("planetary_computer", args)>>,
          raised |-> planetary_computer.raised,
          returned |-> IF planetary_computer.raised THEN <<>>
                       ELSE planetary_computer.items]

NoAnswer == [raised |-> FALSE, items |-> <<>>]

SearchUnset ==
    [args |-> [bbox |-> "", datetime_range |-> "", max_cloud_cover |-> 0, max_items |-> 0],
     element84 |-> NoAnswer, planetary_computer |-> NoAnswer,
     done |-> FALSE, calls |-> <<>>, raised |-> FALSE, returned |-> <<>>]

\* one call of search_sentinel2_with_fallback
SearchWithFallback ==
    /\ ~search.done
    /\ LET out == search_sentinel2_with_fallback(search.args, search.element84,
                                                 search.planetary_computer)
       IN  search' = [search EXCEPT !.done = TRUE, !.calls = out.calls,
                                    !.raised = out.raised, !.returned = out.returned]
    /\ UNCHANGED <<score, detectVars, vec, runVars, storeVars, batchVars, analyticsVars,
                   slope_call, index_call>>


---------------------------------------------------------------------------
(* The variables a specification does not use stay at these values. *)
StoreIdle ==
    /\ regional_stats = NoRows
    /\ store_log = NoLog

BatchIdle ==
    /\ batch = NoBatch
    /\ arrays_by_idx_month = NoArrays

AnalyticsIdle ==
    /\ trend = TrendUnset
    /\ monitor = MonitorUnset
    /\ spi_call = SpiUnset

CallsIdle ==
    /\ slope_call = SlopeUnset
    /\ index_call = IndexUnset
    /\ search = SearchUnset

---------------------------------------------------------------------------
(* Inputs of the scoring functions *)

ScoreVals == {NaN, Num(300), Num(500), Num(700)}
ScoreStds == {NaN, Num(0), Num(1), Num(10), Num(11), Num(100)}
MinStds == {10, 50}

VecUnset ==
    [done |-> FALSE,
     confidence |-> [res |-> 10, values |-> [c \in Cells |-> 0]],
     min_confidence |-> 1, min_area_ha |-> MIN_ALERT_AREA_HA,
     result |-> NoFrame]

ScoreUnset ==
    [done |-> FALSE,
     current |-> [p \in Pixels |-> NaN], mean |-> [p \in Pixels |-> NaN],
     std |-> [p \in Pixels |-> NaN], min_std |-> DEFAULT_MIN_STD,
     zscore |-> [p \in Pixels |-> ZNaN], delta |-> [p \in Pixels |-> NaN]]

\* one call of compute_zscore and compute_delta on the same grids
ComputeScores ==
    /\ ~score.done
    /\ score' = [score EXCEPT
                    !.done = TRUE,
                    !.zscore = compute_zscore(score.current, score.mean,
                                              score.std, score.min_std),
                    !.delta = compute_delta(score.current, score.mean)]
    /\ UNCHANGED <<detectVars, vec, runVars, storeVars, batchVars, analyticsVars,
                   callVars>>

(* Inputs of detect_deforestation: per pixel and index, one of the cases    *)
(* below.  With mean 0.5 and std 0.06, a current value of 0.35 sits        *)
(* exactly on the medium sigma and delta thresholds and is below the low   *)
(* sigma threshold only without drought, 0.295 is high only without        *)
(* drought and 0.28 is high.  0.34 against std 0.1 is medium by its delta  *)
(* alone, and 0.4 (z = -1.67) is below no threshold.  A std that is missing  *)
(* or tiny is clamped to 0.01: 0.46 then has z = -4 with a delta of only   *)
(* -0.04, and 0.472 has z = -2.8.                                          *)
Case(c, m, s) == [c |-> c, m |-> m, s |-> s]

MoistureCases ==
    { Case(Num(500), Num(500), Num(60)),
      Case(Num(350), Num(500), Num(60)),
      Case(Num(340), Num(500), Num(100)),
      Case(Num(295), Num(500), Num(60)),
      Case(Num(280), Num(500), Num(60)),
      Case(NaN,      Num(500), Num(60)),
      Case(Num(460), Num(500), NaN),
      Case(Num(472), Num(500), Num(5)),
      Case(Num(500), NaN,      Num(60)) }

OtherCases ==
    { Case(Num(400), Num(500), Num(60)),
      Case(Num(280), Num(500), Num(60)) }

CasesOf(n) == IF n \in {"ndmi", "nbr"} THEN MoistureCases ELSE OtherCases

SpiVals == {NoSpi, Spi(-1500), Spi(-1000)}

\* a grid detect_deforestation never reads: the observation of an index with no
\* baseline, the baseline of an index the observation lacks
Unread == [p \in Pixels |-> Num(500)]

InitScore ==
    /\ \E c \in [Pixels -> ScoreVals], m \in [Pixels -> ScoreVals],
          s \in [Pixels -> ScoreStds], ms \in MinStds :
          score = [ScoreUnset EXCEPT !.current = c, !.mean = m, !.std = s,
                                     !.min_std = ms]
    /\ current_indices = EmptyGrids
    /\ baseline_means = EmptyGrids
    /\ baseline_stds = EmptyGrids
    /\ spi_3month = NoSpi
    /\ detection = Pending
    /\ vec = VecUnset
    /\ alert_files = NoFiles
    /\ alert_stats = NoStats
    /\ last_run = NoRuns
    /\ StoreIdle
    /\ BatchIdle
    /\ AnalyticsIdle
    /\ CallsIdle

\* the observation has any subset of the indices; run_detection.py loads the
\* mean and the std of an index together, for any subset of the indices
InitDetect ==
    /\ score = ScoreUnset
    /\ \E have \in SUBSET Indices, based \in SUBSET Indices :
          \E k \in [have \cap based -> UNION {[Pixels -> CasesOf(n)] : n \in Indices}] :
             /\ \A n \in have \cap based : k[n] \in [Pixels -> CasesOf(n)]
             /\ current_indices =
                   [n \in have |-> IF n \in based
                                   THEN [p \in Pixels |-> k[n][p].c] ELSE Unread]
             /\ baseline_means =
                   [n \in based |-> IF n \in have
                                    THEN [p \in Pixels |-> k[n][p].m] ELSE Unread]
             /\ baseline_stds =
                   [n \in based |-> IF n \in have
                                    THEN [p \in Pixels |-> k[n][p].s] ELSE Unread]
    /\ spi_3month = NoSpi
    /\ detection = Pending
    /\ vec = VecUnset
    /\ alert_files = NoFiles
    /\ alert_stats = NoStats
    /\ last_run = NoRuns
    /\ StoreIdle
    /\ BatchIdle
    /\ AnalyticsIdle
    /\ CallsIdle

(* Inputs of vectorize_alerts: every raster of levels 0..3, at a cell size  *)
(* of 100 m (1 ha a cell), a min_confidence of 1 (the default) or 2 and a  *)
(* min_area_ha of 1.0 (the default) or 2.0.                                *)
Levels == 0..3
Resolutions == {100}
MinConfidences == {1, 2}
MinAreas == {MIN_ALERT_AREA_HA, 2 * MIN_ALERT_AREA_HA}

InitVectorize ==
    /\ score = ScoreUnset
    /\ current_indices = EmptyGrids
    /\ baseline_means = EmptyGrids
    /\ baseline_stds = EmptyGrids
    /\ spi_3month = NoSpi
    /\ detection = Pending
    /\ \E v \in [Cells -> Levels], r \in Resolutions,
          mc \in MinConfidences, ma \in MinAreas :
          vec = [VecUnset EXCEPT !.confidence = [res |-> r, values |-> v],
                                 !.min_confidence = mc, !.min_area_ha = ma]
    /\ alert_files = NoFiles
    /\ alert_stats = NoStats
    /\ last_run = NoRuns
    /\ StoreIdle
    /\ BatchIdle
    /\ AnalyticsIdle
    /\ CallsIdle

\* one call of vectorize_alerts
Vectorize ==
    /\ ~vec.done
    /\ vec' = [vec EXCEPT
                  !.done = TRUE,
                  !.result = vectorize_alerts(vec.confidence, vec.min_confidence,
                                              vec.min_area_ha)]
    /\ UNCHANGED <<score, detectVars, runVars, storeVars, batchVars, analyticsVars,
                   callVars>>

(* Scenes of the detection run: rasters of 1 ha cells whose first column    *)
(* holds any levels and whose other cells are 0, on either date.           *)
SceneRasters ==
    {[res |-> 100, values |-> [c \in Cells |-> IF c[2] = 0 THEN col[c[1]] ELSE 0]]
     : col \in [Rows -> Levels]}

InitRun ==
    /\ score = ScoreUnset
    /\ current_indices = EmptyGrids
    /\ baseline_means = EmptyGrids
    /\ baseline_stds = EmptyGrids
    /\ spi_3month = NoSpi
    /\ detection = Pending
    /\ vec = VecUnset
    /\ alert_files = NoFiles
    /\ alert_stats = NoStats
    /\ last_run = NoRuns
    /\ StoreIdle
    /\ BatchIdle
    /\ AnalyticsIdle
    /\ CallsIdle

\* one call of detect_deforestation on the current inputs
Detect(spi) ==
    /\ spi_3month' = spi
    /\ detection' = detect_deforestation(current_indices, baseline_means,
                                         baseline_stds, spi)
    /\ UNCHANGED <<score, current_indices, baseline_means, baseline_stds, vec, runVars,
                   storeVars, batchVars, analyticsVars, callVars>>

(* The scoring and ledger variables, where a specification does not use them. *)
ScoringIdle ==
    /\ score = ScoreUnset
    /\ current_indices = EmptyGrids
    /\ baseline_means = EmptyGrids
    /\ baseline_stds = EmptyGrids
    /\ spi_3month = NoSpi
    /\ detection = Pending
    /\ vec = VecUnset

LedgerIdle ==
    /\ alert_files = NoFiles
    /\ alert_stats = NoStats
    /\ last_run = NoRuns

(* Calls of the store: four keys of regional_stats that differ from the     *)
(* first in one column each, rasters with no, one or two valid pixels, and  *)
(* the summaries of no alert and of two alerts.                             *)
StoreKeys ==
    {<<"2024-06-10", "ndmi", "full_aoi">>, <<"2024-06-15", "ndmi", "full_aoi">>,
     <<"2024-06-10", "nbr", "full_aoi">>, <<"2024-06-10", "ndmi", "chapada">>}

StoreData == {<<NaN, NaN>>, <<NaN, Num(500)>>, <<Num(400), Num(600)>>}

StoreSummaries ==
    {[total_alerts |-> 0, total_area_ha |-> 0, high |-> 0, medium |-> 0, low |-> 0],
     [total_alerts |-> 2, total_area_ha |-> 300, high |-> 1, medium |-> 1, low |-> 0]}

InitStore ==
    /\ ScoringIdle
    /\ LedgerIdle
    /\ StoreIdle
    /\ BatchIdle
    /\ AnalyticsIdle
    /\ CallsIdle

\* one call of store_regional_stats
StoreRegionalStats(key, index_data) ==
    /\ regional_stats' = store_regional_stats(regional_stats, key[1], key[2],
                                              index_data, key[3])
    /\ store_log' =
          IF NothingValid(index_data) THEN store_log
          ELSE [store_log EXCEPT
                    !.regional_stats[key] =
                        <<RegionalRow(key[1], key[2], index_data, key[3])>>,
                    !.overwritten =
                        IF store_log.regional_stats[key] = <<>> THEN @
                        ELSE @ \cup {"regional_stats"}]
    /\ UNCHANGED <<score, detectVars, vec, runVars, batchVars, analyticsVars,
                   callVars>>

\* one call of store_alert_stats
StoreAlertStats(date, summary) ==
    /\ alert_stats' = store_alert_stats(alert_stats, date, summary)
    /\ store_log' =
          [store_log EXCEPT !.alert_stats[date] =
              <<[date |-> date, total_alerts |-> summary.total_alerts,
                 total_area_ha |-> summary.total_area_ha,
                 high_confidence |-> summary.high,
                 medium_confidence |-> summary.medium,
                 low_confidence |-> summary.low]>>,
              !.overwritten =
                 IF store_log.alert_stats[date] = <<>> THEN @
                 ELSE @ \cup {"alert_stats"}]
    /\ UNCHANGED <<score, detectVars, vec, alert_files, last_run, regional_stats,
                   batchVars, analyticsVars, callVars>>

(* Batch runs: up to MaxScenes scenes on either date.  A scene is clear or  *)
(* not, has baselines or not, has index rasters with valid pixels, and is  *)
(* scored to no alert, to one low alert of 2 ha or to one high alert of     *)
(* 1 ha.  A baseline build needs month 6 for both indices, for one of them, *)
(* or needs another month only.                                             *)
BatchColumns == {<<0, 0>>, <<1, 1>>, <<3, 0>>}

BatchRasters ==
    {[res |-> 100, values |-> [c \in Cells |-> IF c[2] = 0 THEN col[c[1] + 1] ELSE 0]]
     : col \in BatchColumns}

SceneIndexData == {<<Num(400), Num(600)>>}

Scenes ==
    [clear : BOOLEAN, baselines : BOOLEAN, index_data : SceneIndexData,
     confidence : BatchRasters]

NeededSets ==
    {{<<"ndmi", 6>>, <<"nbr", 6>>}, {<<"ndmi", 6>>}, {<<"ndmi", 7>>, <<"nbr", 7>>}}

SceneLists == UNION {[1..n -> Dates] : n \in 0..MaxScenes}

\* current_month = datetime.utcnow().month of a run in late June or on the
\* first of July; the search looks back SEARCH_DAYS_BACK days, so that the
\* July run gets the scene of 15 June and not that of 10 June
RunMonths == {6, 7}
SearchedIn(current_month) ==
    IF current_month = 6 THEN Dates ELSE {"2024-06-15"}

InitBatch ==
    /\ ScoringIdle
    /\ LedgerIdle
    /\ StoreIdle
    /\ AnalyticsIdle
    /\ CallsIdle
    /\ arrays_by_idx_month = NoArrays
    /\ \E items \in SceneLists :
          \/ \E current_month \in RunMonths :
                /\ \A i \in 1..Len(items) : items[i] \in SearchedIn(current_month)
                /\ batch = [NoBatch EXCEPT !.script = "run_detection", !.items = items,
                                           !.status = "running",
                                           !.current_month = current_month]
          \/ \E needed \in NeededSets :
                batch = [NoBatch EXCEPT !.script = "build_baseline", !.items = items,
                                        !.status = "running", !.needed = needed]

(* Series for mann_kendall_test: every sequence of up to MaxLen values, each *)
(* missing or one of MaxLen levels.                                         *)
SeriesValues == {NaN} \cup {Num(x) : x \in 1..MaxLen}

InitTrend ==
    /\ ScoringIdle
    /\ LedgerIdle
    /\ StoreIdle
    /\ BatchIdle
    /\ monitor = MonitorUnset
    /\ spi_call = SpiUnset
    /\ CallsIdle
    /\ \E n \in 0..MaxLen : \E values \in [1..n -> SeriesValues] :
          trend = [TrendUnset EXCEPT !.values = values]

(* Series for sens_slope: up to MaxObs observations, each missing, 0.1 or  *)
(* 0.3, each on the day of the one before it or on the next day.            *)
SlopeValues == {NaN, Num(100), Num(300)}

InitSlope ==
    /\ ScoringIdle
    /\ LedgerIdle
    /\ StoreIdle
    /\ BatchIdle
    /\ AnalyticsIdle
    /\ index_call = IndexUnset
    /\ search = SearchUnset
    /\ \E n \in 0..MaxObs :
       \E values \in [1..n -> SlopeValues], gaps \in [1..(n - 1) -> {0, 1}] :
          slope_call = [SlopeUnset EXCEPT
                           !.values = values,
                           !.dates = [k \in 1..n |-> SumSeq(SubSeq(gaps, 1, k - 1))]]

(* Calls of compute_index: every subset of the six band names as the       *)
(* dataset, the six indices, dnbr (a function of the module that is not in *)
(* the dispatch table) and a name that is none, and the three sensors and  *)
(* one that is none.                                                       *)
BandNames == {"blue", "red", "nir", "nir08", "swir16", "swir22"}
IndexNames == INDEX_FUNCTIONS \cup {"dnbr", "ndwi"}
Sensors == {"sentinel2", "landsat", "hls", "modis"}

InitIndex ==
    /\ ScoringIdle
    /\ LedgerIdle
    /\ StoreIdle
    /\ BatchIdle
    /\ AnalyticsIdle
    /\ slope_call = SlopeUnset
    /\ search = SearchUnset
    /\ \E ds \in SUBSET BandNames, index_name \in IndexNames, sensor \in Sensors :
          index_call = [IndexUnset EXCEPT !.ds = ds, !.index_name = index_name,
                                          !.sensor = sensor]

(* Calls of search_sentinel2_with_fallback: the default arguments or       *)
(* others, and for each provider an error or a list of at most max_items   *)
(* of its own items, up to two.                                            *)
SearchArguments ==
    [bbox : {"AOI_BBOX", "other"}, datetime_range : {"None", "2024-06-01/2024-06-16"},
     max_cloud_cover : {20, 15}, max_items : {50, 1}]

Answers(provider, max_items) ==
    {[raised |-> TRUE, items |-> <<>>]}
    \cup {[raised |-> FALSE, items |-> [i \in 1..k |-> [provider |-> provider, id |-> i]]] :
             k \in {j \in 0..2 : j <= max_items}}

InitSearch ==
    /\ ScoringIdle
    /\ LedgerIdle
    /\ StoreIdle
    /\ BatchIdle
    /\ AnalyticsIdle
    /\ slope_call = SlopeUnset
    /\ index_call = IndexUnset
    /\ \E args \in SearchArguments :
       \E element84 \in Answers("element84", args.max_items),
          planetary_computer \in Answers("planetary_computer", args.max_items) :
          search = [SearchUnset EXCEPT !.args = args, !.element84 = element84,
                                       !.planetary_computer = planetary_computer]

(* Series for detect_breaks_harmonic: up to MaxHist observations on days 1,  *)
(* 2, ... up to history_end, each missing or 0.02 off the curve at 0.5, so  *)
(* that the RMSE is 0.02, followed by up to MaxMonitor observations, each    *)
(* missing, 0.06 above the curve (at 3 times the RMSE, not beyond it) or    *)
(* 0.4 above it; no harmonic or one, and 2 or 3 in a row to confirm.        *)
HistoryValues == {NaN, Num(480), Num(520)}
MonitorValues == {NaN, Num(560), Num(900)}

InitMonitor ==
    /\ ScoringIdle
    /\ LedgerIdle
    /\ StoreIdle
    /\ BatchIdle
    /\ trend = TrendUnset
    /\ spi_call = SpiUnset
    /\ CallsIdle
    /\ \E h \in 0..MaxHist, m \in 0..MaxMonitor :
       \E hist \in [1..h -> HistoryValues], mon \in [1..m -> MonitorValues] :
       \E n_harmonics \in {0, 1}, n_consecutive \in {2, 3} :
          monitor = [dates |-> [i \in 1..(h + m) |-> i],
                     values |-> hist \o mon,
                     history_end |-> h,
                     n_harmonics |-> n_harmonics,
                     threshold_factor |-> 30,
                     n_consecutive |-> n_consecutive,
                     coeffs |-> [intercept |-> 500],
                     done |-> FALSE, breaks |-> <<>>]

(* Inputs of compute_spi: reference arrays of up to one NaN, no or two      *)
(* zeros, up to ten values of 5 mm and up to one of 8 mm; a target that is *)
(* missing, 0, 2 or 5 mm; the reference given apart or left to be the      *)
(* precipitation array itself, and an empty precipitation array.  Inputs   *)
(* of the SPI-3 call: up to MaxMonths months, each fetched as 0 or 5 mm or *)
(* failing.                                                                *)
Repeat(v, k) == [i \in 1..k |-> v]

ReferenceArrays ==
    {Repeat(NaN, a) \o Repeat(Num(0), b) \o Repeat(Num(5), c) \o Repeat(Num(8), d) :
        a \in {0, 1}, b \in {0, 2}, c \in {0, 1, 9, 10}, d \in {0, 1}}

Targets == {NaN, Num(0), Num(2), Num(5)}

SpiArguments ==
    {[precipitation |-> head \o <<t>>, reference_period |-> NoReference] :
        head \in ReferenceArrays, t \in Targets}
    \cup {[precipitation |-> <<t>>, reference_period |-> Reference(r)] :
        r \in ReferenceArrays, t \in Targets}
    \cup {[precipitation |-> <<>>, reference_period |-> r] :
        r \in {NoReference} \cup {Reference(a) : a \in ReferenceArrays}}

FetchOutcomes ==
    {[raised |-> TRUE, val |-> NaN], [raised |-> FALSE, val |-> Num(0)],
     [raised |-> FALSE, val |-> Num(5)]}

InitSpi ==
    /\ ScoringIdle
    /\ LedgerIdle
    /\ StoreIdle
    /\ BatchIdle
    /\ trend = TrendUnset
    /\ monitor = MonitorUnset
    /\ CallsIdle
    /\ \E fit_raises \in BOOLEAN :
          \/ \E args \in SpiArguments :
                spi_call = [SpiUnset EXCEPT !.call = "compute_spi",
                                            !.precipitation = args.precipitation,
                                            !.reference_period = args.reference_period,
                                            !.fit_raises = fit_raises]
          \/ \E n \in 0..MaxMonths : \E fetches \in [1..n -> FetchOutcomes] :
                spi_call = [SpiUnset EXCEPT !.call = "compute_spi_3month",
                                            !.fetches = fetches,
                                            !.fit_raises = fit_raises]

NextScore == ComputeScores
NextSpi == ComputeSpi \/ ComputeSpi3Month
NextMonitor == DetectBreaks
NextTrend == MannKendall
NextDetect == \E spi \in SpiVals : Detect(spi)

NextVectorize == Vectorize
NextRun == \E d \in Dates, c \in SceneRasters : VectorizeAndSave(d, c)
NextStore ==
    \/ \E key \in StoreKeys, index_data \in StoreData : StoreRegionalStats(key, index_data)
    \/ \E date \in Dates, summary \in StoreSummaries : StoreAlertStats(date, summary)
NextBatch ==
    \/ \E scene \in Scenes, fail \in FailurePoints \cup {NoFailure} :
          ProcessScene(scene, fail)
    \/ \E fail \in BuildFailurePoints \cup {NoFailure} : BuildScene(fail)
    \/ \E lost \in SUBSET DOMAIN NoArrays : Finish(lost)

SpecRun == InitRun /\ [][NextRun]_vars
NextSlope == SensSlope
NextIndex == ComputeIndex
NextSearch == SearchWithFallback
SpecSearch == InitSearch /\ [][NextSearch]_vars
SpecIndex == InitIndex /\ [][NextIndex]_vars
SpecSlope == InitSlope /\ [][NextSlope]_vars
SpecTrend == InitTrend /\ [][NextTrend]_vars
SpecMonitor == InitMonitor /\ [][NextMonitor]_vars
SpecSpi == InitSpi /\ [][NextSpi]_vars
SpecStore == InitStore /\ [][NextStore]_vars
SpecBatch == InitBatch /\ [][NextBatch]_vars
\* the loop is straight-line code: a pass that can run does run
SpecBatchFair == SpecBatch /\ WF_vars(NextBatch)
SpecVectorize == InitVectorize /\ [][NextVectorize]_vars
SpecScore == InitScore /\ [][NextScore]_vars
Spec == InitDetect /\ [][NextDetect]_vars


---------------------------------------------------------------------------
(* Claims about detect_deforestation, checked under Spec *)

Returned == detection.status = "ok"
Scored == DOMAIN detection.z
Drought == spi_3month.given /\ spi_3month.v < -1000
SigmaHigh == IF Drought THEN -3500 ELSE -3000
SigmaMedium == IF Drought THEN -3000 ELSE -2500
SigmaLow == IF Drought THEN -2500 ELSE -2000
Moisture == {"ndmi", "nbr"}

MeetsHigh(p) ==
    /\ Moisture \subseteq Scored
    /\ \A n \in Moisture :
          /\ ZLt(detection.z[n][p], SigmaHigh)
          /\ Lt(detection.delta[n][p], Num(-200))
MeetsMedium(p) ==
    \E n \in Moisture \cap Scored :
       \/ ZLt(detection.z[n][p], SigmaMedium)
       \/ Lt(detection.delta[n][p], Num(-150))
MeetsLow(p) == \E n \in Scored : ZLt(detection.z[n][p], SigmaLow)

C2_HighIffBothMoisture ==
    Returned =>
        \A p \in Pixels :
            detection.confidence[p] = 3 <=>
                /\ Moisture \subseteq (DOMAIN current_indices \cap DOMAIN baseline_means)
                /\ \A n \in Moisture :
                      /\ ZLt(detection.z[n][p], SigmaHigh)
                      /\ Lt(detection.delta[n][p], Num(-200))

C2_Witness ==
    /\ Returned
    /\ Drought
    /\ \E p \in Pixels : detection.confidence[p] = 3

\* C3: on the same grids and baselines, every pixel that is an alert in a run
\* under drought is an alert in a run without drought (the two runs in either
\* order).
C3_DroughtNeverAddsAlerts ==
    [][ (Returned /\ detection'.status = "ok") =>
          /\ (Drought /\ ~Drought') =>
                \A p \in Pixels : detection.is_alert[p] => detection'.is_alert[p]
          /\ (~Drought /\ Drought') =>
                \A p \in Pixels : detection'.is_alert[p] => detection.is_alert[p]
      ]_vars

\* a run under drought that leaves unflagged a pixel with an index below the
\* undroughted low sigma threshold
C3_Witness ==
    /\ Returned
    /\ Drought
    /\ \E p \in Pixels :
          /\ ~detection.is_alert[p]
          /\ \E n \in Scored : ZLt(detection.z[n][p], -2000)

\* C4: with no available index, detect_deforestation returns a grid that is 0
\* at every pixel.
C4_NoIndexGivesAllNone ==
    (detection.status # "pending"
        /\ DOMAIN current_indices \cap DOMAIN baseline_means = {}) =>
        /\ Returned
        /\ \A p \in Pixels : detection.confidence[p] = 0

---------------------------------------------------------------------------
(* Claims about compute_zscore and compute_delta, checked under SpecScore *)

\* C5: a pixel missing in current, mean or std is missing in the z-score, and
\* a pixel missing in current or mean is missing in the delta.
C5_MissingPropagates ==
    score.done =>
        \A p \in Pixels :
            /\ (score.current[p].nan \/ score.mean[p].nan \/ score.std[p].nan)
                  => score.zscore[p].nan
            /\ (score.current[p].nan \/ score.mean[p].nan)
                  => score.delta[p].nan

ValidPixel(p) ==
    ~score.current[p].nan /\ ~score.mean[p].nan /\ ~score.std[p].nan

\* C6: at every valid pixel the z-score is (current - mean) over
\* max(std, min_std): the divisor is min_std where std <= min_std and std
\* where std > min_std, it is never 0, and a grid scored against itself is 0.
C6_DivisorIsClampedStd ==
    score.done =>
        \A p \in Pixels :
            ValidPixel(p) =>
                /\ ~score.zscore[p].nan
                /\ score.zscore[p].num = score.current[p].v - score.mean[p].v
                /\ score.std[p].v <= score.min_std
                      => score.zscore[p].den = score.min_std
                /\ score.std[p].v > score.min_std
                      => score.zscore[p].den = score.std[p].v
                /\ score.zscore[p].den # 0
                /\ score.current[p] = score.mean[p] => score.zscore[p].num = 0

\* zscore(0.3, 0.5, std, 0.01) with std at or below 0.01 is -20
C6_Witness ==
    /\ score.done
    /\ \E p \in Pixels :
          /\ ValidPixel(p)
          /\ score.std[p].v <= score.min_std
          /\ score.current[p].v = 300 /\ score.mean[p].v = 500
          /\ score.min_std = 10
          /\ score.zscore[p] = Frac(-200, 10)


---------------------------------------------------------------------------
(* Claims about vectorize_alerts, checked under SpecVectorize *)

VecValues == vec.confidence.values
Qualifying == {c \in Cells : VecValues[c] >= vec.min_confidence}

SharesEdge(a, b) ==
    (a[1] = b[1] /\ (a[2] = b[2] + 1 \/ b[2] = a[2] + 1))
        \/ (a[2] = b[2] /\ (a[1] = b[1] + 1 \/ b[1] = a[1] + 1))

RECURSIVE Reach(_, _)
Reach(S, Q) ==
    LET T == S \cup {x \in Q : \E c \in S : SharesEdge(c, x)}
    IN  IF T = S THEN S ELSE Reach(T, Q)

\* the connected components of the set Q of cells
RECURSIVE Components(_)
Components(Q) ==
    IF Q = {} THEN {}
    ELSE LET g == Reach({CHOOSE c \in Q : TRUE}, Q)
         IN  {g} \cup Components(Q \ g)

\* the area of a set of cells in hundredths of a hectare (area / 10,000 ha)
RegionAreaHa(g) == (Cardinality(g) * vec.confidence.res * vec.confidence.res) \div 100

\* C7: every returned polygon carries the maximum confidence among the cells
\* the polygon covers.
C7_ConfidenceIsFootprintMax ==
    vec.done =>
        \A row \in vec.result.rows :
            row.confidence = Max({VecValues[c] : c \in row.geometry})

\* C8: the returned polygons are exactly the connected components of
\* qualifying cells whose area is at least min_area_ha, and none is recorded
\* with a smaller area.
C8_ExactlyRegionsOfMinArea ==
    vec.done =>
        /\ {row.geometry : row \in vec.result.rows} =
              {g \in Components(Qualifying) : RegionAreaHa(g) >= vec.min_area_ha}
        /\ \A row \in vec.result.rows :
              /\ row.area_ha = RegionAreaHa(row.geometry)
              /\ row.area_ha >= vec.min_area_ha

\* a component of exactly min_area_ha is returned while a smaller one of the
\* same raster is left out
C8_Witness ==
    /\ vec.done
    /\ \E row \in vec.result.rows : row.area_ha = vec.min_area_ha
    /\ \E g \in Components(Qualifying) : RegionAreaHa(g) < vec.min_area_ha

\* C9: with no qualifying cell, or with no component of at least min_area_ha,
\* the result is a frame of zero rows with the columns geometry, confidence
\* and area_ha.
C9_EmptyIsAZeroRowFrame ==
    vec.done =>
        ((\A g \in Components(Qualifying) : RegionAreaHa(g) < vec.min_area_ha)
         =>
         /\ vec.result.kind = "GeoDataFrame"
         /\ vec.result.rows = {}
         /\ vec.result.columns = {"geometry", "confidence", "area_ha"})

\* qualifying cells exist and every component is below the minimum area
C9_Witness ==
    /\ vec.done
    /\ Qualifying # {}
    /\ \A g \in Components(Qualifying) : RegionAreaHa(g) < vec.min_area_ha
    /\ vec.result = [kind |-> "GeoDataFrame",
                     columns |-> {"geometry", "confidence", "area_ha"}, rows |-> {}]


---------------------------------------------------------------------------
(* Claims about the alert ledger, checked under SpecRun *)

\* the records held for a date: none when there is no file
StoredRows(d) == IF alert_files[d].exists THEN alert_files[d].rows ELSE {}

\* C10: the alert file of a date holds exactly the alert records of the latest
\* vectorize-and-save run of that date, whatever that run produced.
C10_FileHoldsLatestRun ==
    \A d \in Dates :
        last_run[d].ran =>
            {[geometry |-> r.geometry, area_ha |-> r.area_ha, confidence |-> r.confidence]
                : r \in StoredRows(d)}
            = last_run[d].gdf.rows

---------------------------------------------------------------------------
(* Claims about the scene loop and the store, checked under SpecBatch and   *)
(* SpecStore                                                                *)

\* the summary a row of alert_stats holds
RowSummary(row) ==
    [total_alerts |-> row.total_alerts, total_area_ha |-> row.total_area_ha,
     high |-> row.high_confidence, medium |-> row.medium_confidence,
     low |-> row.low_confidence]

\* C11: after any passes of the scene loop, completed or raised part-way, the
\* alert_stats row of a date equals summarize_alerts of the records read back
\* from that date's alert file.
C11_StatsRowSummarizesFile ==
    \A i \in 1..Len(alert_stats) :
        LET stored == load_alerts(alert_files, alert_stats[i].date)
        IN  /\ stored.raised = ""
            /\ RowSummary(alert_stats[i]) = summarize_alerts(stored)

\* C12: after any calls of store_regional_stats and store_alert_stats, each
\* key of either table has at most one row, that row is the one the latest
\* call that wrote the key passed in, and a key no call wrote has no row.
C12_OneRowPerKeyLatestValues ==
    /\ \A k \in DOMAIN store_log.regional_stats :
          SelectSeq(regional_stats,
                    LAMBDA r : <<r.date, r.index_name, r.region>> = k)
          = store_log.regional_stats[k]
    /\ \A d \in DOMAIN store_log.alert_stats :
          SelectSeq(alert_stats, LAMBDA r : r.date = d) = store_log.alert_stats[d]

\* both tables hold rows under several keys, and in both a call has written
\* over the row of an earlier call
C12_Witness ==
    /\ store_log.overwritten = {"regional_stats", "alert_stats"}
    /\ Len(regional_stats) >= 3
    /\ Len(alert_stats) = 2

\* what load_alerts() shows of one date: its error, if it raises, and the
\* records of that date
ShownOfDate(files, date) ==
    [raised |-> load_all_alerts(files).raised,
     rows |-> {r \in load_all_alerts(files).rows : r.detection_date = date}]

\* C13: a pass that is cut short inside a write for its scene's date (in
\* to_file of save_alerts, or in a store insert) leaves every read of any
\* other date as it was: load_alerts of that date and its part of
\* load_alerts(), its alert_stats row and its regional_stats rows.
C13_InterruptedWriteSparesOtherDates ==
    [][(/\ batch'.processed # batch.processed
        /\ batch'.raised \in {"to_file", "alert_stats", "regional_stats"})
       => \A other \in Dates \ {Selected(batch)[batch.pos]} :
             /\ load_alerts(alert_files', other) = load_alerts(alert_files, other)
             /\ alert_files[other].exists =>
                   ShownOfDate(alert_files', other) = ShownOfDate(alert_files, other)
             /\ load_alert_timeseries(alert_stats', other)
                = load_alert_timeseries(alert_stats, other)
             /\ \A i \in 1..Len(RunIndices) :
                   load_timeseries(regional_stats', RunIndices[i], DefaultRegion, other)
                   = load_timeseries(regional_stats, RunIndices[i], DefaultRegion, other)
      ]_vars

\* every scene before batch.pos has been gone through, in order, and a pass
\* that raised has not stopped the command
BatchInOrder ==
    /\ batch.status # "aborted"
    /\ batch.processed = [i \in 1..(batch.pos - 1) |-> i]
    /\ batch.status = "ended" =>
          /\ batch.pos = Len(Selected(batch)) + 1
          /\ batch.failed # {} => batch.exit_code = 0

\* C20: in a batch run of either command, a scene whose processing raises
\* never stops the batch: every selected scene is gone through in order,
\* and the run comes to its normal end.
C20_BatchSurvivesSceneFailures ==
    [](BatchInOrder) /\ <>(batch.status = "ended")

\* a detection run of two scenes that ended after the first scene raised and
\* the second did not
C20_Witness ==
    /\ batch.script = "run_detection"
    /\ batch.status = "ended"
    /\ batch.processed = <<1, 2>>
    /\ batch.failed = {1}

---------------------------------------------------------------------------
(* Claims about mann_kendall_test, checked under SpecTrend *)

\* the non-missing values of the series handed in, in order
CleanSeries == ValidValues(trend.values)

StrictlyIncreasing(xs) == \A i \in 1..(Len(xs) - 1) : xs[i] < xs[i + 1]

RisingAndSignificant(result) ==
    /\ result.tau.num = result.tau.den
    /\ result.significant
    /\ result.trend = "increasing"

\* C14 as stated: every strictly increasing series with at least 4 non-missing
\* values gets tau = 1.0, significant = True and trend = "increasing".
C14_RisingFromFourValues ==
    (trend.done /\ Len(CleanSeries) >= 4 /\ StrictlyIncreasing(CleanSeries))
        => RisingAndSignificant(trend.result)

\* C14, amended: every strictly increasing series with at least 5 non-missing
\* values gets tau = 1.0, significant = True and trend = "increasing".
C14_RisingFromFiveValues ==
    (trend.done /\ Len(CleanSeries) >= 5 /\ StrictlyIncreasing(CleanSeries))
        => RisingAndSignificant(trend.result)

C14_Witness ==
    /\ trend.done
    /\ Len(CleanSeries) >= 5
    /\ StrictlyIncreasing(CleanSeries)
    /\ trend.result.n = 5

\* rises less falls over all pairs of the non-missing values
RisesLessFalls ==
    Cardinality({p \in (1..Len(CleanSeries)) \X (1..Len(CleanSeries)) :
                    p[1] < p[2] /\ CleanSeries[p[1]] < CleanSeries[p[2]]})
    - Cardinality({p \in (1..Len(CleanSeries)) \X (1..Len(CleanSeries)) :
                    p[1] < p[2] /\ CleanSeries[p[1]] > CleanSeries[p[2]]})

\* C15: the label is "insufficient_data" (with tau 0, p 1, not significant)
\* exactly when fewer than 4 non-missing values remain; otherwise it is
\* "increasing" exactly when the result is significant and S > 0,
\* "decreasing" exactly when it is significant and S < 0, and "no_trend"
\* exactly when it is not significant.
C15_TrendLabels ==
    trend.done =>
        LET result == trend.result
        IN  /\ (result.trend = "insufficient_data") <=> (Len(CleanSeries) < 4)
            /\ (result.trend = "insufficient_data") =>
                  /\ result.tau.num = 0
                  /\ result.p_value.zsq_num = 0
                  /\ ~result.significant
            /\ Len(CleanSeries) >= 4 =>
                  /\ (result.trend = "increasing")
                        <=> (result.significant /\ RisesLessFalls > 0)
                  /\ (result.trend = "decreasing")
                        <=> (result.significant /\ RisesLessFalls < 0)
                  /\ (result.trend = "no_trend") <=> ~result.significant

\* a falling series that is long enough to be labelled
C15_Witness ==
    /\ trend.done
    /\ trend.result.trend = "decreasing"

---------------------------------------------------------------------------
(* Claims about detect_breaks_harmonic, checked under SpecMonitor *)

\* the positions of the series dated after history_end, in order
MonitorPositions ==
    SelectSeq([i \in 1..Len(monitor.dates) |-> i],
              LAMBDA i : monitor.dates[i] > monitor.history_end)

\* the valid values dated up to history_end
HistoryValid ==
    {i \in 1..Len(monitor.dates) :
        monitor.dates[i] <= monitor.history_end /\ ~monitor.values[i].nan}

\* the mean squared residual of the history, as ssr and count
HistorySsr ==
    LET RECURSIVE Ssr(_)
        Ssr(rest) ==
            IF rest = {} THEN 0
            ELSE LET i == CHOOSE j \in rest : TRUE
                     e == monitor.values[i].v - monitor.coeffs.intercept
                 IN  e * e + Ssr(rest \ {i})
    IN  Ssr(HistoryValid)

\* the k-th monitoring observation is flagged and not missing
Flagged(k) ==
    LET v == monitor.values[MonitorPositions[k]]
        e == v.v - monitor.coeffs.intercept
    IN  /\ ~v.nan
        /\ e * e * Cardinality(HistoryValid) * 100
              > monitor.threshold_factor * monitor.threshold_factor * HistorySsr

\* how many flagged observations in a row end at the k-th one
RunEndingAt(k) ==
    IF ~Flagged(k) THEN 0
    ELSE k - (CHOOSE j \in 0..(k - 1) :
                 /\ j = 0 \/ ~Flagged(j)
                 /\ \A l \in (j + 1)..k : Flagged(l))

\* the observations at which the count reaches n_consecutive, counting anew
\* after each time it does
Confirmations ==
    SelectSeq([k \in 1..Len(MonitorPositions) |-> k],
              LAMBDA k : RunEndingAt(k) > 0 /\ RunEndingAt(k) % monitor.n_consecutive = 0)

FitPossible == Cardinality(HistoryValid) >= 1 + 2 * monitor.n_harmonics

\* C16: with a fitted model, there is one breakpoint for every time the count
\* of consecutive flagged, non-missing monitoring observations reaches
\* n_consecutive, the count restarting after each report and at every
\* unflagged or missing observation; its date, value, expected and anomaly
\* are those of the first observation of that run of n_consecutive.
C16_BreakAtFirstOfEachFullRun ==
    (monitor.done /\ FitPossible) =>
        /\ Len(monitor.breaks) = Len(Confirmations)
        /\ \A b \in 1..Len(Confirmations) :
              LET first == MonitorPositions[Confirmations[b] - monitor.n_consecutive + 1]
              IN  monitor.breaks[b] =
                     [date |-> monitor.dates[first],
                      value |-> monitor.values[first].v,
                      expected |-> monitor.coeffs.intercept,
                      anomaly |-> monitor.values[first].v - monitor.coeffs.intercept]

\* a lone run of exactly 3 outliers after an unflagged observation, with 3 to
\* confirm: one breakpoint, dated at the first outlier
C16_Witness ==
    /\ monitor.done
    /\ FitPossible
    /\ monitor.n_consecutive = 3
    /\ Len(MonitorPositions) = 4
    /\ ~Flagged(1) /\ Flagged(2) /\ Flagged(3) /\ Flagged(4)
    /\ Len(monitor.breaks) = 1
    /\ monitor.breaks[1].date = monitor.dates[MonitorPositions[2]]

\* C17: when the observations dated up to history_end hold fewer valid values
\* than the model has coefficients, none at all included, the call returns
\* the empty list.
C17_NoBreaksWithoutFit ==
    (monitor.done /\ ~FitPossible) => monitor.breaks = <<>>

\* a history with valid values, though too few for one harmonic, before
\* three outliers in a row
C17_Witness ==
    /\ monitor.done
    /\ ~FitPossible
    /\ HistoryValid # {}
    /\ Len(MonitorPositions) >= 3
    /\ \A k \in 1..3 : monitor.values[MonitorPositions[k]] = Num(900)
    /\ monitor.breaks = <<>>

\* the k-th monitoring observation exceeds the threshold of a fitted model
FlaggedByFit(k) == FitPossible /\ Flagged(k)

\* the runs of flagged, non-missing monitoring observations that cannot be
\* extended, as <<first, last>>
MaximalRuns ==
    LET m == Len(MonitorPositions)
    IN  {r \in (1..m) \X (1..m) :
           /\ r[1] <= r[2]
           /\ \A k \in r[1]..r[2] : FlaggedByFit(k)
           /\ r[1] = 1 \/ ~FlaggedByFit(r[1] - 1)
           /\ r[2] = m \/ ~FlaggedByFit(r[2] + 1)}

\* the monitoring observation the b-th breakpoint reports, by its date
BreakPosition(b) ==
    CHOOSE k \in 1..Len(MonitorPositions) :
        monitor.dates[MonitorPositions[k]] = monitor.breaks[b].date

\* C29: every maximal run of L flagged, non-missing monitoring observations
\* holds floor(L / n_consecutive) of the reported breakpoints and no
\* breakpoint lies outside such a run; two breakpoints are at least
\* n_consecutive monitoring observations apart, and every reported date is
\* after history_end.
C29_BreaksPerRun ==
    monitor.done =>
        LET reported == 1..Len(monitor.breaks)
        IN  /\ \A b \in reported :
                  /\ \E k \in 1..Len(MonitorPositions) :
                        monitor.dates[MonitorPositions[k]] = monitor.breaks[b].date
                  /\ \E r \in MaximalRuns :
                        BreakPosition(b) \in r[1]..r[2]
                  /\ monitor.breaks[b].date > monitor.history_end
            /\ \A r \in MaximalRuns :
                  Cardinality({b \in reported : BreakPosition(b) \in r[1]..r[2]})
                     = (r[2] - r[1] + 1) \div monitor.n_consecutive
            /\ \A b1, b2 \in reported :
                  b1 < b2 =>
                     BreakPosition(b2) - BreakPosition(b1) >= monitor.n_consecutive

\* one run of 4 outliers with 3 to confirm, after a history: a single
\* breakpoint, the fourth outlier starting no second one
C29_Witness ==
    /\ monitor.done
    /\ monitor.history_end > 0
    /\ monitor.n_consecutive = 3
    /\ MaximalRuns = {<<1, 4>>}
    /\ Len(monitor.breaks) = 1
    /\ BreakPosition(1) = 1

---------------------------------------------------------------------------
(* Claims about compute_index, checked under SpecIndex *)

\* the band in the nir role: nir08 for ndmi and nbr on every sensor, and for
\* the other indices on landsat and hls
NirRole(index_name, sensor) ==
    IF index_name \in {"ndmi", "nbr"} \/ sensor \in {"landsat", "hls"}
    THEN "nir08" ELSE "nir"

\* the bands an index needs besides the one in the nir role
OtherBands(index_name) ==
    CASE index_name \in {"ndvi", "evi2", "savi"} -> {"red"}
      [] index_name = "ndmi" -> {"swir16"}
      [] index_name = "nbr" -> {"swir22"}
      [] index_name = "bsi" -> {"blue", "red", "swir16"}

Computable ==
    /\ index_call.index_name \in {"ndvi", "evi2", "ndmi", "nbr", "savi", "bsi"}
    /\ OtherBands(index_call.index_name)
          \cup {NirRole(index_call.index_name, index_call.sensor)} \subseteq index_call.ds

\* C22: a call returns a grid, named after the index, exactly when the index
\* is a supported one and the dataset holds every band it needs under the
\* band naming of the sensor; every other call raises and returns no grid.
C22_GridOnlyWithEveryBand ==
    index_call.done =>
        /\ Computable =>
              index_call.result = [raised |-> "", name |-> index_call.index_name]
        /\ ~Computable =>
              index_call.result = [raised |-> "KeyError", name |-> ""]

\* bsi on hls with every band but nir08, nir included: raised
C22_Witness ==
    /\ index_call.done
    /\ index_call.index_name = "bsi"
    /\ index_call.sensor = "hls"
    /\ index_call.ds = {"blue", "red", "nir", "swir16", "swir22"}
    /\ index_call.result.raised = "KeyError"

---------------------------------------------------------------------------
(* Claims about search_sentinel2_with_fallback, checked under SpecSearch *)

\* the providers queried, in order
Queried == [i \in 1..Len(search.calls) |-> search.calls[i].provider]

Element84Empty == ~search.element84.raised /\ search.element84.items = <<>>

\* C23: Element84 is queried first and once; Planetary Computer is queried,
\* once and after it, exactly when Element84 returned zero items; a call that
\* returns gives Element84's items when there are any and else what
\* Planetary Computer returned.
C23_FallbackOnlyWhenEmpty ==
    search.done =>
        /\ Queried = IF Element84Empty THEN <<"element84", "planetary_computer">>
                     ELSE <<"element84">>
        /\ ~search.raised =>
              search.returned = IF search.element84.items # <<>>
                                THEN search.element84.items
                                ELSE search.planetary_computer.items

\* Element84 has nothing and Planetary Computer two items: both queried, in
\* that order, and the two items returned
C23_Witness ==
    /\ search.done
    /\ Element84Empty
    /\ Len(search.planetary_computer.items) = 2
    /\ Queried = <<"element84", "planetary_computer">>
    /\ search.returned = search.planetary_computer.items

---------------------------------------------------------------------------
(* Claims about compute_spi and compute_spi_3month, checked under SpecSpi *)

\* the target and the NaN-cleaned reference of the call
SpiTarget ==
    IF Len(spi_call.precipitation) > 0
    THEN spi_call.precipitation[Len(spi_call.precipitation)] ELSE Num(0)

SpiReference ==
    IF spi_call.reference_period.given THEN spi_call.reference_period.values
    ELSE spi_call.precipitation

CleanReference == ValidValues(SpiReference)
NonZeroReference == SelectSeq(CleanReference, LAMBDA x : x > 0)

\* n * sum(x^2) - sum(x)^2 of the cleaned reference and of its non-zero part
CleanSpread ==
    Len(CleanReference) * SumSeq([i \in 1..Len(CleanReference) |->
                                     CleanReference[i] * CleanReference[i]])
    - SumSeq(CleanReference) * SumSeq(CleanReference)

NonZeroSpread ==
    Len(NonZeroReference) * SumSeq([i \in 1..Len(NonZeroReference) |->
                                       NonZeroReference[i] * NonZeroReference[i]])
    - SumSeq(NonZeroReference) * SumSeq(NonZeroReference)

\* one of the three fallback cases holds
FallbackCase ==
    \/ Len(NonZeroReference) < 10
    \/ NonZeroSpread = 0
    \/ spi_call.fit_raises

\* (target - mean) / std of the cleaned reference, or 0.0 when that std is 0
ReferenceZScore ==
    IF CleanSpread = 0 THEN ZeroValue
    ELSE Number(Len(CleanReference) * SpiTarget.v - SumSeq(CleanReference), CleanSpread)

\* C18: for a non-NaN target and a reference with a valid value, compute_spi
\* returns the z-score of the target against the NaN-cleaned reference (0.0
\* when its std is 0) in each of the three fallback cases, and the
\* gamma-based value only when none of them holds.
C18_FallbackIsReferenceZScore ==
    (/\ spi_call.call = "compute_spi" /\ spi_call.done
     /\ ~SpiTarget.nan /\ Len(CleanReference) > 0)
    => IF FallbackCase THEN spi_call.result.value = ReferenceZScore
       ELSE spi_call.result.value = GammaValue

\* one of the last three months handed to compute_spi_3month is NaN
LastThreeHoldNaN ==
    /\ Len(spi_call.precipitation) >= 3
    /\ \E i \in (Len(spi_call.precipitation) - 2)..Len(spi_call.precipitation) :
          spi_call.precipitation[i].nan

\* C19: a NaN target gives exactly 0.0 with no fit attempted, whatever the
\* reference holds; and compute_spi_3month gives exactly 0.0 whenever one of
\* the last three monthly values is NaN, which is what fetch_chirps_range
\* puts in for a month whose fetch failed.
C19_NaNTargetGivesZero ==
    /\ (spi_call.call = "compute_spi" /\ spi_call.done /\ SpiTarget.nan)
          => spi_call.result = [value |-> ZeroValue, fit_attempted |-> FALSE]
    /\ (spi_call.call = "compute_spi_3month" /\ spi_call.done)
          => /\ \A i \in 1..Len(spi_call.fetches) :
                   spi_call.fetches[i].raised => spi_call.precipitation[i].nan
             /\ LastThreeHoldNaN
                   => spi_call.result = [value |-> ZeroValue, fit_attempted |-> FALSE]

\* an SPI-3 call over more than three months, one of the last three of which
\* failed to fetch while the months before it did not
C19_Witness ==
    /\ spi_call.call = "compute_spi_3month"
    /\ spi_call.done
    /\ Len(spi_call.fetches) = 5
    /\ spi_call.fetches[4].raised
    /\ \A i \in {1, 2, 3, 5} : spi_call.fetches[i] = [raised |-> FALSE, val |-> Num(5)]
    /\ spi_call.result.value = ZeroValue

---------------------------------------------------------------------------
(* Claims about the exit status and the baseline month of a batch run,     *)
(* checked under SpecBatch                                                  *)

\* the run looked for baselines and no pass found a pair for any index
NoBaselineFound ==
    /\ batch.baseline_loads # {}
    /\ \A l \in batch.baseline_loads : ~l.found

\* C21: a run of either command whose search returned no scene ends with a
\* non-zero exit status, and so does a detection run in which no baseline
\* was found for any index.
C21_NonZeroExitWithoutImageryOrBaselines ==
    batch.status = "ended" =>
       /\ Len(batch.items) = 0 => batch.exit_code # 0
       /\ batch.script = "run_detection" /\ NoBaselineFound => batch.exit_code # 0

\* C27: every scene a detection run scores is scored against the baseline
\* pair of the calendar month of the scene's own date, also when the scene
\* was acquired in the month before the run.
C27_BaselineOfSceneMonth ==
    batch.script = "run_detection" =>
       \A l \in batch.baseline_loads :
          l.found /\ l.pos \notin batch.failed =>
             l.month = SceneMonth(Selected(batch)[l.pos])

---------------------------------------------------------------------------
(* Claims about the steps of detect_deforestation, checked under Spec      *)

\* the confidence grid after the high, the medium and the low step of the
\* call that returned
StepIndices == AvailableIndices(current_indices, baseline_means)
AfterHigh ==
    HighStep(Zeros, detection.z, detection.delta, MoistureIndices(StepIndices),
             ZHigh(spi_3month))
AfterMedium ==
    MediumStep(AfterHigh, detection.z, detection.delta, MoistureIndices(StepIndices),
               ZMed(spi_3month))
AfterLow == LowStep(AfterMedium, detection.z, StepIndices, ZLow(spi_3month))

\* a step lowers no pixel, and the pixels it changes were below level and
\* are at level after it
StepRaises(before, after, level) ==
    \A p \in Pixels :
       /\ after[p] >= before[p]
       /\ after[p] # before[p] => before[p] < level /\ after[p] = level

\* C24: within one run the high, medium and low steps, applied in that
\* order, never lower a pixel's level, and each changes only pixels whose
\* level before the step is below the level the step assigns.
C24_StepsOnlyRaise ==
    Returned =>
       /\ StepRaises(Zeros, AfterHigh, 3)
       /\ StepRaises(AfterHigh, AfterMedium, 2)
       /\ StepRaises(AfterMedium, AfterLow, 1)
       /\ detection.confidence = AfterLow

\* a pixel set to 3 by the high step that the medium and the low criteria
\* also flag, left at 3 by both later steps
C24_Witness ==
    /\ Returned
    /\ \E p \in Pixels :
          AfterHigh[p] = 3 /\ MeetsMedium(p) /\ MeetsLow(p) /\ AfterLow[p] = 3

\* the sigma thresholds of the call are those of the claim, and the delta
\* tests of the high and the medium level are made at -0.20 and -0.15
ClaimedThresholds(applies) ==
    /\ ZHigh(spi_3month) = IF applies THEN -3500 ELSE -3000
    /\ ZMed(spi_3month) = IF applies THEN -3000 ELSE -2500
    /\ ZLow(spi_3month) = IF applies THEN -2500 ELSE -2000
    /\ \A p \in Pixels :
          /\ detection.confidence[p] = 3 =>
                \A n \in Moisture : Lt(detection.delta[n][p], Num(-200))
          /\ (\E n \in Moisture \cap Scored : Lt(detection.delta[n][p], Num(-150)))
                => detection.confidence[p] >= 2
          /\ detection.confidence[p] = 2 =>
                \E n \in Moisture \cap Scored :
                   \/ Lt(detection.delta[n][p], Num(-150))
                   \/ ZLt(detection.z[n][p], ZMed(spi_3month))

\* C25: the drought adjustment applies exactly when an SPI is given and is
\* strictly below -1.0; it moves the three sigma thresholds to -3.5, -3.0 and
\* -2.5 and leaves the delta thresholds as they are.
C25_DroughtAdjustment ==
    Returned => ClaimedThresholds(spi_3month.given /\ spi_3month.v < -1000)

\* a call with an SPI of exactly -1.0 in which a pixel at z = -2.5 is low: it
\* would be 0 with the adjustment applied
C25_Witness ==
    /\ Returned
    /\ spi_3month = Spi(-1000)
    /\ \E p \in Pixels :
          /\ detection.confidence[p] = 1
          /\ \A n \in Scored : ~ZLt(detection.z[n][p], -2500)

\* the observation is missing at p in every index the call scored
MissingEverywhere(p) == \A n \in Scored : current_indices[n][p].nan

\* a missing observation has a missing z-score and a missing delta against
\* every baseline mean and std
MissingStaysMissing ==
    \A m \in ScoreVals, s \in ScoreStds :
       /\ ZScorePixel(NaN, m, s, DEFAULT_MIN_STD).nan
       /\ Sub(NaN, m).nan

\* C30: a pixel whose observation is missing in every available index gets
\* confidence 0 and is_alert false, whatever the baseline mean and std are;
\* is_alert is true exactly where confidence is above 0.
C30_MissingPixelIsNoAlert ==
    Returned =>
       /\ MissingStaysMissing
       /\ \A p \in Pixels :
             /\ MissingEverywhere(p) =>
                   /\ \A n \in Scored : detection.z[n][p].nan /\ detection.delta[n][p].nan
                   /\ detection.confidence[p] = 0
                   /\ ~detection.is_alert[p]
             /\ detection.is_alert[p] <=> detection.confidence[p] > 0

\* a call that scored both moisture indices on a pixel missing in both
C30_Witness ==
    /\ Returned
    /\ Moisture \subseteq Scored
    /\ \E p \in Pixels : MissingEverywhere(p) /\ detection.confidence[p] = 0

---------------------------------------------------------------------------
(* Claims about the confidence of a polygon, checked under SpecVectorize   *)

\* the cells inside the pixel-space bounding box of a polygon
BoundingBox(geom) ==
    {c \in Cells :
        /\ \E g \in geom : g[1] <= c[1]
        /\ \E g \in geom : g[1] >= c[1]
        /\ \E g \in geom : g[2] <= c[2]
        /\ \E g \in geom : g[2] >= c[2]}

\* C26: the confidence of a polygon is the maximum of the confidence grid
\* over exactly the cells of the polygon's pixel-space bounding box: every
\* cell of the box is sampled and no cell outside it contributes.
C26_ConfidenceIsBoxMax ==
    vec.done =>
        \A row \in vec.result.rows :
            row.confidence = Max({VecValues[c] : c \in BoundingBox(row.geometry)})

---------------------------------------------------------------------------
(* Claims about sens_slope, checked under SpecSlope                         *)

\* the positions of the valid observations of the call
SlopeValid == {i \in 1..Len(slope_call.values) : ~slope_call.values[i].nan}

\* at least 3 valid observations, two of them on different dates
SlopeEstimable ==
    /\ Cardinality(SlopeValid) >= 3
    /\ \E i, j \in SlopeValid : slope_call.dates[i] # slope_call.dates[j]

\* C28: for a series with at least 3 valid observations and a pair of
\* distinct dates, lower_ci <= slope <= upper_ci, and the two ranks at which
\* the bounds are read lie inside the sorted array of pairwise slopes:
\* 0 <= lower rank <= upper rank <= number of slopes - 1.
C28_SlopeWithinItsInterval ==
    slope_call.done /\ SlopeEstimable =>
       LET r == slope_call.result
       IN  /\ r.lower_ci <= r.slope
           /\ r.slope <= r.upper_ci
           /\ 0 <= r.lower_rank
           /\ r.lower_rank <= r.upper_rank
           /\ r.upper_rank <= r.n_slopes - 1

\* six observations on six days: 15 slopes, c_alpha = 10.43, the bounds read
\* at ranks 2 and 12 (neither clamped) and strictly apart from the slope
C28_Witness ==
    /\ slope_call.done
    /\ SlopeEstimable
    /\ slope_call.result.n_slopes = 15
    /\ slope_call.result.lower_rank = 2
    /\ slope_call.result.upper_rank = 12
    /\ slope_call.result.lower_ci < slope_call.result.slope
    /\ slope_call.result.slope < slope_call.result.upper_ci

===========================================================================
